---- MODULE Spec2Model ----
(***************************************************************************)
(* Keyword intersection search (vscode-search): the matcher, the scan      *)
(* scheduler, the ripgrep fast path, the inverted index and the webview    *)
(* panel's search handler, modelled from src/src/search.ts and             *)
(* src/unnamed/part_001.                                                   *)
(*                                                                         *)
(* Text is a sequence of one-character strings.  A value that the code     *)
(* holds as "T | null" is a sequence of length 0 (null) or 1.              *)
(***************************************************************************)
EXTENDS Integers, Sequences, FiniteSets, TLC

(***************************************************************************)
(* Characters and strings                                                  *)
(***************************************************************************)

\* The characters file contents are written in: a lower/upper case pair, a
\* second letter, a regular-expression metacharacter that is not a word
\* character, a blank and the line terminator.
Alphabet == {"a", "A", "b", "^", " ", "\n"}

\* \w of the JavaScript regular expressions, restricted to Alphabet.
IsWordChar(c) == c \in {"a", "A", "b"}

\* String.prototype.toLowerCase on one character.
LowerChar(c) == IF c = "A" THEN "a" ELSE c

\* String.prototype.toLowerCase.
ToLowerCase(s) == [i \in 1..Len(s) |-> LowerChar(s[i])]

\* Order of the characters under localeCompare.
CharRank(c) ==
    CASE c = "\n" -> 0
      [] c = " " -> 1
      [] c = "^" -> 2
      [] c = "a" -> 3
      [] c = "A" -> 4
      [] c = "b" -> 5
      [] OTHER -> 6

RECURSIVE LocaleCompare(_, _)
\* a.localeCompare(b): negative, zero or positive.
LocaleCompare(a, b) ==
    IF a = <<>> /\ b = <<>> THEN 0
    ELSE IF a = <<>> THEN -1
    ELSE IF b = <<>> THEN 1
    ELSE IF CharRank(Head(a)) < CharRank(Head(b)) THEN -1
    ELSE IF CharRank(Head(a)) > CharRank(Head(b)) THEN 1
    ELSE LocaleCompare(Tail(a), Tail(b))

\* text.substr(i, Len(kw)) === kw, i 1-based.
MatchesAt(text, kw, i) ==
    /\ i >= 1
    /\ i + Len(kw) - 1 <= Len(text)
    /\ \A j \in 1..Len(kw) : text[i + j - 1] = kw[j]

\* String.prototype.includes.
Includes(text, kw) == \E i \in 1..(Len(text) + 1) : MatchesAt(text, kw, i)

\* String.prototype.indexOf(kw, from), 1-based; 0 when absent.
IndexOf(text, kw, from) ==
    IF \E i \in from..(Len(text) + 1) : MatchesAt(text, kw, i)
    THEN CHOOSE i \in from..(Len(text) + 1) :
            /\ MatchesAt(text, kw, i)
            /\ \A j \in from..(i - 1) : ~MatchesAt(text, kw, j)
    ELSE 0

RECURSIVE SplitFrom(_, _, _)
SplitFrom(text, i, cur) ==
    IF i > Len(text) THEN <<cur>>
    ELSE IF text[i] = "\n" THEN <<cur>> \o SplitFrom(text, i + 1, <<>>)
    ELSE SplitFrom(text, i + 1, Append(cur, text[i]))

\* content.split('\n').
SplitLines(content) == SplitFrom(content, 1, <<>>)

\* The characters the class \s of a regular expression matches.
IsWhitespace(c) == c \in {" ", "\n"}

\* String.prototype.trim.
Trim(text) ==
    LET kept == {i \in 1..Len(text) : ~IsWhitespace(text[i])}
    IN IF kept = {} THEN <<>>
       ELSE SubSeq(text, CHOOSE i \in kept : \A j \in kept : i <= j,
                         CHOOSE i \in kept : \A j \in kept : j <= i)

RECURSIVE SplitWhitespaceFrom(_, _, _)
SplitWhitespaceFrom(text, i, cur) ==
    IF i > Len(text) THEN <<cur>>
    ELSE IF IsWhitespace(text[i])
    THEN LET rest == {j \in (i + 1)..Len(text) : ~IsWhitespace(text[j])}
             next == IF rest = {} THEN Len(text) + 1
                     ELSE CHOOSE j \in rest : \A k \in rest : j <= k
         IN <<cur>> \o SplitWhitespaceFrom(text, next, <<>>)
    ELSE SplitWhitespaceFrom(text, i + 1, Append(cur, text[i]))

\* text.split(/\s+/): a run of white space separates two pieces, and a run
\* at either end leaves an empty piece there; the empty text gives one
\* empty piece.
SplitWhitespace(text) == SplitWhitespaceFrom(text, 1, <<>>)

\* Array.prototype.filter(k => k.length > 0).
FilterNonEmpty(pieces) ==
    LET F[i \in 0..Len(pieces)] ==
            IF i = 0 THEN <<>>
            ELSE IF Len(pieces[i]) > 0 THEN Append(F[i - 1], pieces[i]) ELSE F[i - 1]
    IN F[Len(pieces)]

\* A parse that splits the input as it was typed and keeps every piece.
SplitKeywordsPlain(input) == SplitWhitespace(input)

\* input.trim().split(/\s+/).filter(k => k.length > 0): the keyword list of
\* handleSearch and of the searchKeywords command.
SplitKeywords(input) == FilterNonEmpty(SplitWhitespace(Trim(input)))

RECURSIVE JoinAll(_)
\* chunks.join('').
JoinAll(chunks) ==
    IF chunks = <<>> THEN <<>> ELSE Head(chunks) \o JoinAll(Tail(chunks))

(***************************************************************************)
(* Keyword matcher                                                         *)
(***************************************************************************)

\* The assertion \b at the gap before text[p] (p in 1..Len(text)+1).
WordBoundaryAt(text, p) ==
    LET before == p > 1 /\ p - 1 <= Len(text) /\ IsWordChar(text[p - 1])
        after == p >= 1 /\ p <= Len(text) /\ IsWordChar(text[p])
    IN before # after

\* new RegExp(`\\b${escapeRegExp(kw)}\\b`, ignoreCase ? 'gi' : 'g') matches
\* text at i.
WordRegexMatchesAt(text, kw, ignoreCase, i) ==
    /\ WordBoundaryAt(text, i)
    /\ IF ignoreCase
       THEN MatchesAt(ToLowerCase(text), ToLowerCase(kw), i)
       ELSE MatchesAt(text, kw, i)
    /\ WordBoundaryAt(text, i + Len(kw))

\* wordRegex.test(text) on a fresh regular expression.
WordRegexTest(text, kw, ignoreCase) ==
    \E i \in 1..(Len(text) + 1) : WordRegexMatchesAt(text, kw, ignoreCase, i)

RECURSIVE WordColumnsFrom(_, _, _, _)
\* The regex.exec loop of findKeywordPositions on one line: the next match
\* is looked for from lastIndex, the end of the previous one.
WordColumnsFrom(line, kw, ignoreCase, from) ==
    IF \E i \in from..(Len(line) + 1) : WordRegexMatchesAt(line, kw, ignoreCase, i)
    THEN LET i == CHOOSE k \in from..(Len(line) + 1) :
                    /\ WordRegexMatchesAt(line, kw, ignoreCase, k)
                    /\ \A j \in from..(k - 1) : ~WordRegexMatchesAt(line, kw, ignoreCase, j)
         IN <<i>> \o WordColumnsFrom(line, kw, ignoreCase, i + Len(kw))
    ELSE <<>>

RECURSIVE SubstringColumnsFrom(_, _, _)
\* The indexOf loop of findKeywordPositions on one line: the next search
\* starts one character after the start of the previous match.
SubstringColumnsFrom(searchLine, searchKeyword, from) ==
    LET foundIndex == IndexOf(searchLine, searchKeyword, from)
    IN IF foundIndex = 0 THEN <<>>
       ELSE <<foundIndex>> \o SubstringColumnsFrom(searchLine, searchKeyword, foundIndex + 1)

\* The columns (1-based) findKeywordPositions reports on one line.
LineColumns(line, keyword, caseSensitive, wholeWord) ==
    IF wholeWord
    THEN WordColumnsFrom(line, keyword, ~caseSensitive, 1)
    ELSE LET searchKeyword == IF caseSensitive THEN keyword ELSE ToLowerCase(keyword)
             searchLine == IF caseSensitive THEN line ELSE ToLowerCase(line)
         IN SubstringColumnsFrom(searchLine, searchKeyword, 1)

RECURSIVE PositionsFrom(_, _, _, _, _)
PositionsFrom(lines, keyword, caseSensitive, wholeWord, lineIndex) ==
    IF lineIndex > Len(lines) THEN <<>>
    ELSE LET cols == LineColumns(lines[lineIndex], keyword, caseSensitive, wholeWord)
         IN [k \in 1..Len(cols) |-> [line |-> lineIndex, column |-> cols[k]]]
            \o PositionsFrom(lines, keyword, caseSensitive, wholeWord, lineIndex + 1)

\* Match positions whose lines are counted from 0.
findKeywordPositionsFromZero(lines, keyword, caseSensitive, wholeWord) ==
    LET found == PositionsFrom(lines, keyword, caseSensitive, wholeWord, 1)
    IN [i \in 1..Len(found) |-> [found[i] EXCEPT !.line = found[i].line - 1]]

\* findKeywordPositions: every match position, line by line.
findKeywordPositions(lines, keyword, caseSensitive, wholeWord) ==
    PositionsFrom(lines, keyword, caseSensitive, wholeWord, 1)

(***************************************************************************)
(* Files and the streaming reader                                          *)
(*                                                                         *)
(* A file is [content, chunks, size, readable, ignored, mtime]: chunks is  *)
(* the way the read stream delivers content (JoinAll(chunks) = content),   *)
(* size is the byte size stat reports, readable is whether stat and the    *)
(* read stream succeed, ignored is shouldIgnoreFile on its path.           *)
(***************************************************************************)

\* Files above this many KB get the streaming pre-check first.
LargeFileKB == 100

\* Default of the maxFileSize setting, in KB.
DefaultMaxFileSizeKB == 1024

RECURSIVE MaxLength(_)
\* Math.max(...keywords.map(k => k.length)).
MaxLength(keywords) ==
    IF keywords = <<>> THEN 0
    ELSE LET m == MaxLength(Tail(keywords))
         IN IF Len(Head(keywords)) > m THEN Len(Head(keywords)) ELSE m

\* A slice that keeps nothing of the buffer.
SliceLastNothing(buffer, n) == <<>>

\* buffer.slice(-n).
SliceLast(buffer, n) ==
    IF n >= Len(buffer) THEN buffer
    ELSE SubSeq(buffer, Len(buffer) - n + 1, Len(buffer))

RECURSIVE StreamFrom(_, _, _, _, _, _)
\* The 'data' and 'end' callbacks of containsKeywordsStream, chunk i on.
StreamFrom(chunks, i, buffer, foundKeywords, searchKeywords, caseSensitive) ==
    IF i > Len(chunks)
    THEN Cardinality(foundKeywords) = Len(searchKeywords)
    ELSE LET buf == buffer \o chunks[i]
             searchText == IF caseSensitive THEN buf ELSE ToLowerCase(buf)
             found == foundKeywords \cup
                        {searchKeywords[k] : k \in {j \in 1..Len(searchKeywords) :
                                                     Includes(searchText, searchKeywords[j])}}
             maxKeywordLength == MaxLength(searchKeywords)
         IN IF Cardinality(found) = Len(searchKeywords) THEN TRUE
            ELSE StreamFrom(chunks, i + 1,
                            IF Len(buf) > maxKeywordLength * 2
                            THEN SliceLast(buf, maxKeywordLength) ELSE buf,
                            found, searchKeywords, caseSensitive)

\* containsKeywordsStream: the pre-check of a large file.
containsKeywordsStream(file, keywords, caseSensitive) ==
    StreamFrom(file.chunks, 1, <<>>, {},
               IF caseSensitive THEN keywords
               ELSE [k \in 1..Len(keywords) |-> ToLowerCase(keywords[k])],
               caseSensitive)

\* readFileWithStream: "reject" when the stream fails or the bytes read
\* exceed maxBytes, else the content and its lines.
readFileWithStream(file, maxBytes) ==
    IF ~file.readable \/ file.size > maxBytes
    THEN [kind |-> "reject", content |-> <<>>, lines |-> <<>>]
    ELSE [kind |-> "ok", content |-> JoinAll(file.chunks),
          lines |-> SplitLines(JoinAll(file.chunks))]

\* Lines of context around a matched line, and the most snippets a preview
\* holds.
ContextLines == 2
MaxSnippets == 5

\* The line numbers of the positions of allMatches, descending.
MatchedLinesDescending(allMatches) ==
    LET S == UNION {{allMatches[k].positions[i].line :
                       i \in 1..Len(allMatches[k].positions)} : k \in 1..Len(allMatches)}
        Sorted[n \in 0..Cardinality(S)] ==
            IF n = 0 THEN <<>>
            ELSE Append(Sorted[n - 1],
                        CHOOSE x \in S : Cardinality({y \in S : y > x}) = n - 1)
    IN Sorted[Cardinality(S)]

\* The line numbers of the positions of allMatches, ascending.
MatchedLines(allMatches) ==
    LET S == UNION {{allMatches[k].positions[i].line :
                       i \in 1..Len(allMatches[k].positions)} : k \in 1..Len(allMatches)}
        Sorted[n \in 0..Cardinality(S)] ==
            IF n = 0 THEN <<>>
            ELSE Append(Sorted[n - 1],
                        CHOOSE x \in S : Cardinality({y \in S : y < x}) = n - 1)
    IN Sorted[Cardinality(S)]

RECURSIVE SnippetGroups(_, _, _, _, _)
\* The grouping loop of generateFilePreview from the i-th matched line on:
\* current is currentSnippet (<<>> while null), groups is snippetGroups.
SnippetGroups(sortedLines, nLines, i, current, groups) ==
    IF i > Len(sortedLines)
    THEN IF current # <<>> /\ Len(groups) < MaxSnippets
         THEN Append(groups, current[1]) ELSE groups
    ELSE LET lineNum == sortedLines[i]
             snippetStart == IF lineNum - ContextLines > 0 THEN lineNum - ContextLines ELSE 0
             snippetEnd == IF nLines - 1 < lineNum + ContextLines
                           THEN nLines - 1 ELSE lineNum + ContextLines
             merge == current # <<>> /\ snippetStart <= current[1].end + 1
             nextCurrent == IF merge THEN [current[1] EXCEPT !.end = snippetEnd]
                            ELSE [start |-> snippetStart, end |-> snippetEnd]
             nextGroups == IF ~merge /\ current # <<>>
                           THEN Append(groups, current[1]) ELSE groups
         IN IF Len(nextGroups) >= MaxSnippets THEN nextGroups
            ELSE SnippetGroups(sortedLines, nLines, i + 1, <<nextCurrent>>, nextGroups)

RECURSIVE JoinLines(_)
\* lines.join('\n').
JoinLines(lines) ==
    IF lines = <<>> THEN <<>>
    ELSE IF Len(lines) = 1 THEN lines[1]
    ELSE lines[1] \o <<"\n">> \o JoinLines(Tail(lines))

\* lines.slice(start, end), both counted from 0, end excluded.
SliceLines(lines, start, end) ==
    SubSeq(lines, start + 1, IF end < Len(lines) THEN end ELSE Len(lines))

\* getMatchedKeywordsInRange: the keywords of the matches with a position
\* whose line is from startLine to endLine, each once, in the order of the
\* matches.
getMatchedKeywordsInRange(allMatches, startLine, endLine) ==
    LET inRange(k) == \E i \in 1..Len(allMatches[k].positions) :
                         /\ allMatches[k].positions[i].line >= startLine
                         /\ allMatches[k].positions[i].line <= endLine
        M[k \in 0..Len(allMatches)] ==
            IF k = 0 THEN <<>>
            ELSE IF /\ inRange(k)
                    /\ \A j \in 1..Len(M[k - 1]) : M[k - 1][j] # allMatches[k].keyword
            THEN Append(M[k - 1], allMatches[k].keyword) ELSE M[k - 1]
    IN M[Len(allMatches)]

\* The loop of generateFilePreview that turns each group into a snippet:
\* the lines and the matched keywords are taken with the start and end of
\* the group as they are, the first and last line reported are one more.
PreviewSnippets(lines, groups, allMatches) ==
    [g \in 1..Len(groups) |->
        [startLine |-> groups[g].start + 1,
         endLine |-> groups[g].end + 1,
         content |-> JoinLines(SliceLines(lines, groups[g].start, groups[g].end + 1)),
         matchedKeywords |-> getMatchedKeywordsInRange(allMatches, groups[g].start,
                                                       groups[g].end)]]

\* generateFilePreview: the snippets with their first and last line, counted
\* from 1, and their text.
generateFilePreview(lines, allMatches) ==
    [snippets |-> PreviewSnippets(lines, SnippetGroups(MatchedLines(allMatches), Len(lines),
                                                       1, <<>>, <<>>), allMatches),
     totalLines |-> Len(lines)]

RECURSIVE MatchKeywordsFrom(_, _, _, _, _, _, _)
\* The keyword loop of containsAllKeywords from keyword k on: "miss" at the
\* first keyword absent from the content, else the matches collected.
MatchKeywordsFrom(content, lines, keywords, caseSensitive, wholeWord, k, allMatches) ==
    IF k > Len(keywords) THEN [kind |-> "all", matches |-> allMatches]
    ELSE LET originalKeyword == keywords[k]
             searchKeyword == IF caseSensitive THEN originalKeyword
                              ELSE ToLowerCase(originalKeyword)
             searchContent == IF caseSensitive THEN content ELSE ToLowerCase(content)
             hasKeyword == IF wholeWord
                           THEN WordRegexTest(searchContent, searchKeyword, ~caseSensitive)
                           ELSE Includes(searchContent, searchKeyword)
             positions == findKeywordPositions(lines, originalKeyword, caseSensitive, wholeWord)
         IN IF ~hasKeyword THEN [kind |-> "miss", matches |-> <<>>]
            ELSE MatchKeywordsFrom(content, lines, keywords, caseSensitive, wholeWord, k + 1,
                                   IF Len(positions) > 0
                                   THEN Append(allMatches, [keyword |-> originalKeyword,
                                                            positions |-> positions])
                                   ELSE allMatches)

\* What containsAllKeywords ends with when it has no SearchResult: "throw"
\* where the code lands in its catch clause, "null" where it returns null.
NoResult(kind, path) ==
    [kind |-> kind, relativePath |-> path, matches |-> <<>>, fileSize |-> 0,
     preview |-> <<>>]

\* The end of the try block: a SearchResult when every keyword has a match
\* entry, else null.
ResultFromMatches(path, file, keywords, lines, m) ==
    IF m.kind = "all" /\ Len(m.matches) = Len(keywords)
    THEN [kind |-> "result", relativePath |-> path, matches |-> m.matches,
          fileSize |-> file.size, preview |-> generateFilePreview(lines, m.matches)]
    ELSE NoResult("null", path)

\* The try block from the settled read on.
MatchContent(path, file, keywords, caseSensitive, wholeWord, read) ==
    IF read.kind = "reject" THEN NoResult("throw", path)
    ELSE ResultFromMatches(path, file, keywords, read.lines,
                           MatchKeywordsFrom(read.content, read.lines, keywords,
                                             caseSensitive, wholeWord, 1, <<>>))

\* The try block of containsAllKeywords: "throw" where the code would land
\* in its catch clause, "null" or "result" where it returns.
containsAllKeywordsTry(path, file, keywords, caseSensitive, wholeWord, maxFileSize) ==
    IF ~file.readable THEN NoResult("throw", path)
    ELSE IF file.size > maxFileSize * 1024 THEN NoResult("null", path)
    ELSE IF file.size > LargeFileKB * 1024
            /\ ~containsKeywordsStream(file, keywords, caseSensitive)
    THEN NoResult("null", path)
    ELSE MatchContent(path, file, keywords, caseSensitive, wholeWord,
                      readFileWithStream(file, maxFileSize * 1024))

\* The value containsAllKeywords returns for the end r of its try block.
SearchResultOrNull(r) ==
    IF r.kind = "result"
    THEN <<[relativePath |-> r.relativePath, matches |-> r.matches, fileSize |-> r.fileSize,
            preview |-> r.preview]>>
    ELSE <<>>

\* containsAllKeywords: a SearchResult, or null (the empty sequence); its
\* catch clause turns every failure into null.
containsAllKeywords(path, file, keywords, caseSensitive, wholeWord, maxFileSize) ==
    SearchResultOrNull(containsAllKeywordsTry(path, file, keywords, caseSensitive,
                                              wholeWord, maxFileSize))

RECURSIVE InsertByPath(_, _)
InsertByPath(sorted, r) ==
    IF sorted = <<>> THEN <<r>>
    ELSE IF LocaleCompare(r.relativePath, Head(sorted).relativePath) < 0
    THEN <<r>> \o sorted
    ELSE <<Head(sorted)>> \o InsertByPath(Tail(sorted), r)

RECURSIVE SortByPath(_)
\* results.sort((a, b) => a.relativePath.localeCompare(b.relativePath)).
SortByPath(results) ==
    IF results = <<>> THEN <<>>
    ELSE InsertByPath(SortByPath(SubSeq(results, 1, Len(results) - 1)),
                      results[Len(results)])

(***************************************************************************)
(* The external line-search utility (ripgrep)                              *)
(*                                                                         *)
(* searchWithRipgrep passes the keyword as the pattern argument, so the    *)
(* utility reads it as a regular expression and tests it line by line.     *)
(* Of the metacharacters only "^" is in Alphabet: it asserts the start of  *)
(* a line and consumes nothing.                                            *)
(***************************************************************************)

\* The lines the utility sees: a final line terminator ends the last line,
\* it does not start an empty one.
RgLines(content) ==
    LET ls == SplitLines(content)
    IN IF ls[Len(ls)] = <<>> THEN SubSeq(ls, 1, Len(ls) - 1) ELSE ls

RECURSIVE RgMatchAt(_, _, _, _, _)
\* pattern[i..] matches line from position p on.
RgMatchAt(line, p, pattern, i, ignoreCase) ==
    IF i > Len(pattern) THEN TRUE
    ELSE IF pattern[i] = "^"
    THEN p = 1 /\ RgMatchAt(line, p, pattern, i + 1, ignoreCase)
    ELSE /\ p <= Len(line)
         /\ IF ignoreCase
            THEN LowerChar(line[p]) = LowerChar(pattern[i])
            ELSE line[p] = pattern[i]
         /\ RgMatchAt(line, p + 1, pattern, i + 1, ignoreCase)

\* The utility lists the file for this pattern (--files-with-matches).
RgFileMatches(file, pattern, ignoreCase) ==
    /\ file.readable
    /\ ~file.ignored
    /\ \E l \in 1..Len(RgLines(file.content)) :
         \E p \in 1..(Len(RgLines(file.content)[l]) + 1) :
            RgMatchAt(RgLines(file.content)[l], p, pattern, 1, ignoreCase)

(***************************************************************************)
(* Inverted index                                                          *)
(***************************************************************************)

\* extractWords: the matches of /\b[a-zA-Z_][a-zA-Z0-9_]*\b/g, lowercased,
\* of length 2 or more.  Alphabet has no digit, so a match is a maximal run
\* of word characters.
extractWords(content) ==
    {ToLowerCase(SubSeq(content, i, j)) :
        <<i, j>> \in {ij \in (1..Len(content)) \X (1..Len(content)) :
                        /\ ij[1] <= ij[2]
                        /\ \A k \in ij[1]..ij[2] : IsWordChar(content[k])
                        /\ WordBoundaryAt(content, ij[1])
                        /\ WordBoundaryAt(content, ij[2] + 1)
                        /\ ij[2] - ij[1] + 1 >= 2}}

\* indexFile: the FileIndex of one file, or null.
indexFile(path, file, maxBytes) ==
    IF ~file.readable \/ file.size > maxBytes
       \/ readFileWithStream(file, maxBytes).kind = "reject"
    THEN <<>>
    ELSE <<[relativePath |-> path,
            lastModified |-> file.mtime,
            fileSize |-> file.size,
            words |-> extractWords(readFileWithStream(file, maxBytes).content),
            lines |-> readFileWithStream(file, maxBytes).lines]>>

\* The index buildSearchIndex assembles over the candidate files it walks
\* at time now: files, the inverted map wordToFiles and the totals.
BuildIndex(files, candidates, maxFileSize, now) ==
    LET indexed == {p \in candidates : Len(indexFile(p, files[p], maxFileSize * 1024)) = 1}
        entry == [p \in indexed |-> indexFile(p, files[p], maxFileSize * 1024)[1]]
        allWords == UNION {entry[p].words : p \in indexed}
        wordToFiles == [w \in allWords |-> {p \in indexed : w \in entry[p].words}]
    IN [version |-> "1.0.0", createdAt |-> now, updatedAt |-> now,
        files |-> entry, wordToFiles |-> wordToFiles,
        totalFiles |-> Cardinality(indexed), totalWords |-> Cardinality(allWords)]

RECURSIVE IndexMatchesFrom(_, _, _, _, _)
\* The keyword loop of findKeywordMatches from keyword k on.
IndexMatchesFrom(lines, keywords, caseSensitive, k, allMatches) ==
    IF k > Len(keywords) THEN [kind |-> "all", matches |-> allMatches]
    ELSE LET positions == findKeywordPositions(lines, keywords[k], caseSensitive, FALSE)
         IN IF Len(positions) > 0
            THEN IndexMatchesFrom(lines, keywords, caseSensitive, k + 1,
                                  Append(allMatches, [keyword |-> keywords[k],
                                                      positions |-> positions]))
            ELSE [kind |-> "miss", matches |-> <<>>]

\* findKeywordMatches: the SearchResult of an index entry, or null.
findKeywordMatches(fileIndex, keywords, caseSensitive) ==
    LET m == IndexMatchesFrom(fileIndex.lines, keywords, caseSensitive, 1, <<>>)
    IN IF m.kind = "all" /\ Len(m.matches) = Len(keywords)
       THEN <<[relativePath |-> fileIndex.relativePath, matches |-> m.matches,
               fileSize |-> fileIndex.fileSize]>>
       ELSE <<>>

RECURSIVE CandidatesFrom(_, _, _, _)
\* The candidate loop of searchWithIndex from keyword k on; acc is
\* candidateFiles, <<>> while it is still null.
CandidatesFrom(index, searchKeywords, k, acc) ==
    IF k > Len(searchKeywords) THEN IF acc = <<>> THEN {} ELSE acc[1]
    ELSE LET keyword == searchKeywords[k]
             filesWithKeyword == IF keyword \in DOMAIN index.wordToFiles
                                 THEN index.wordToFiles[keyword] ELSE {}
             next == IF acc = <<>> THEN filesWithKeyword ELSE acc[1] \cap filesWithKeyword
         IN IF filesWithKeyword = {} \/ next = {} THEN {}
            ELSE CandidatesFrom(index, searchKeywords, k + 1, <<next>>)

RECURSIVE SetToSeq(_)
SetToSeq(S) ==
    IF S = {} THEN <<>>
    ELSE LET x == CHOOSE y \in S : TRUE IN <<x>> \o SetToSeq(S \ {x})

RECURSIVE Flatten(_)
Flatten(seqs) == IF seqs = <<>> THEN <<>> ELSE Head(seqs) \o Flatten(Tail(seqs))

\* A searchWithIndex that returns every candidate the index holds, whatever
\* became of the file on disk.
searchWithIndexUnchecked(index, files, keywords, caseSensitive) ==
    LET searchKeywords == IF caseSensitive THEN keywords
                          ELSE [k \in 1..Len(keywords) |-> ToLowerCase(keywords[k])]
        candidateFiles == CandidatesFrom(index, searchKeywords, 1, <<>>)
        order == SetToSeq(candidateFiles)
        One(p) == IF p \notin DOMAIN index.files THEN <<>>
                  ELSE findKeywordMatches(index.files[p], keywords, caseSensitive)
    IN SortByPath(Flatten([i \in 1..Len(order) |-> One(order[i])]))

\* searchWithIndex on an index held in memory: candidates from the inverted
\* map, each re-checked against the file on disk and re-matched on the
\* indexed lines, sorted by relative path.
searchWithIndex(index, files, keywords, caseSensitive) ==
    LET searchKeywords == IF caseSensitive THEN keywords
                          ELSE [k \in 1..Len(keywords) |-> ToLowerCase(keywords[k])]
        candidateFiles == CandidatesFrom(index, searchKeywords, 1, <<>>)
        order == SetToSeq(candidateFiles)
        One(p) == IF p \notin DOMAIN index.files THEN <<>>
                  ELSE IF p \notin DOMAIN files \/ ~files[p].readable THEN <<>>
                  ELSE IF files[p].mtime # index.files[p].lastModified THEN <<>>
                  ELSE findKeywordMatches(index.files[p], keywords, caseSensitive)
    IN SortByPath(Flatten([i \in 1..Len(order) |-> One(order[i])]))

(***************************************************************************)
(* Inputs                                                                  *)
(***************************************************************************)

\* Largest number of CPUs os.cpus() reports in the small workspaces.
MaxCpu == 2

\* Largest number of candidate files in the large workspaces.
MaxScanFiles == 12

\* Largest number of configuration updates in one index session.
MaxConfigUpdates == 2

\* Largest number of changes made to the files on disk in one index session.
MaxFileChanges == 2

\* Largest number of times the search button is pressed in one panel session.
MaxQueries == 3

\* Largest number of times the clock is seen to advance in one panel session.
MaxElapses == 1

\* Largest number of searches the panel has asked for and not yet seen end.
MaxInFlight == 1

\* Largest number of characters typed into the keyword box.
MaxInputLen == 4

\* Divisor of the batch-size formula: Math.ceil(totalFiles / 10).
BatchDivisor == 10

\* Upper limit of concurrent workers: Math.min(cpuCount, 4).
MaxWorkers == 4

\* The relative path of the i-th file of a workspace.
PathOf(i) ==
    LET L == <<"a", "A", "b">>
    IN <<L[((i \div 9) % 3) + 1], L[((i \div 3) % 3) + 1], L[(i % 3) + 1]>>

SmallPaths == {PathOf(1), PathOf(2)}

FileOf(content, chunks, size, readable, ignored) ==
    [content |-> content, chunks |-> chunks, size |-> size,
     readable |-> readable, ignored |-> ignored, mtime |-> 1]

SmallSize == 10
LargeSize == (LargeFileKB * 1024) + 1
OverSize == (DefaultMaxFileSizeKB * 1024) + (512 * 1024)

\* The kinds of file the small workspaces are made of.
PlainFile == FileOf(<<"a", " ", "b">>, <<<<"a", " ", "b">>>>, SmallSize, TRUE, FALSE)
CaretFile == FileOf(<<"b", "^", "a">>, <<<<"b", "^", "a">>>>, SmallSize, TRUE, FALSE)
UpperFile == FileOf(<<"A", "b">>, <<<<"A", "b">>>>, SmallSize, TRUE, FALSE)
LargeFile == FileOf(<<"b", "\n", "a">>, <<<<"b", "\n">>, <<"a">>>>, LargeSize, TRUE, FALSE)
OverFile == FileOf(<<"A", "b">>, <<<<"A">>, <<"b">>>>, OverSize, TRUE, FALSE)
UnreadableFile == FileOf(<<"a", " ", "b">>, <<<<"a", " ", "b">>>>, SmallSize, FALSE, FALSE)
IgnoredFile == FileOf(<<"a", " ", "b">>, <<<<"a", " ", "b">>>>, SmallSize, TRUE, TRUE)

FileKinds ==
    {PlainFile, CaretFile, UpperFile, LargeFile, OverFile, UnreadableFile, IgnoredFile}

\* The workspaces of at most two files: any kind of first file, alone or
\* next to a plain or an upper-case second file.
SmallWorkspaces ==
    [{} -> FileKinds]
    \cup [{PathOf(2)} -> FileKinds]
    \cup {[p \in SmallPaths |-> IF p = PathOf(2) THEN k[1] ELSE k[2]] :
            k \in FileKinds \X {PlainFile, UpperFile}}

\* The keyword lists a query is made of (none has a blank: every entry
\* point splits the input on white space).
KeywordLists ==
    { <<>>,
      <<<<"a">>>>,
      <<<<"a">>, <<"b">>>>,
      <<<<"A">>, <<"b">>>>,
      <<<<"A", "b">>>>,
      <<<<"a">>, <<"a">>>>,
      <<<<"^", "a">>, <<"b">>>> }

\* The values the maxFileSize setting takes, in KB.
MaxFileSizeChoices == {DefaultMaxFileSizeKB, 2 * DefaultMaxFileSizeKB}

\* A large workspace: n files, the first three hold both letters, file u
\* (if any) cannot be read, the others hold one letter only.
ScanWorkspace(n, u) ==
    [p \in {PathOf(i) : i \in 1..n} |->
        LET i == CHOOSE k \in 1..n : PathOf(k) = p
        IN IF i = u
           THEN FileOf(<<"a", " ", "b">>, <<<<"a", " ", "b">>>>, SmallSize, FALSE, FALSE)
           ELSE IF i <= 3
           THEN FileOf(<<"a", " ", "b">>, <<<<"a", " ", "b">>>>, SmallSize, TRUE, FALSE)
           ELSE FileOf(<<"b">>, <<<<"b">>>>, SmallSize, TRUE, FALSE)]

(***************************************************************************)
(* State                                                                   *)
(***************************************************************************)

VARIABLES
    files,          \* the workspace on disk: relative path -> file
    workspaceOpen,  \* vscode.workspace.workspaceFolders is non-empty
    config,         \* getConfiguration(): caseSensitive, wholeWord, maxFileSize
    cpuCount,       \* os.cpus().length
    keywords,       \* the keyword list of the request
    entry,          \* "webview" (_handleSearch) or "command" (searchKeywords)
    pc,             \* where searchKeywordsIntersection is suspended
    cancelled,      \* token.isCancellationRequested
    spawnedAny,     \* some subprocess has been spawned
    enumeratedAny,  \* findAllFiles has been called
    rg,             \* locals of tryRipgrepSearch
    scan,           \* locals of searchFilesInParallel
    out,            \* how searchKeywordsIntersection ended and what it returned
    msgs,           \* commands posted to the webview, in order
    reports,        \* increments passed to progress.report, as <<num, den>>
    idx,            \* IndexManager's index in memory and the index search
    view            \* the script of the webview: its cache, flags and messages

envVars == <<files, workspaceOpen, cpuCount, keywords, entry>>
queryVars == <<pc, cancelled, spawnedAny, enumeratedAny, rg, scan, out, reports>>
vars == <<files, workspaceOpen, config, cpuCount, keywords, entry, pc, cancelled,
          spawnedAny, enumeratedAny, rg, scan, out, msgs, reports, idx, view>>

\* The promise of checkRipgrepAvailable before its executor runs: children
\* are the processes spawned with --version, timers the children whose
\* 3000 ms timer is still to fire, in the order the timers were set,
\* resolved the value of the promise and resolves the calls of resolve.
ProbeInit == [children |-> <<>>, timers |-> <<>>, resolved |-> <<>>, resolves |-> 0]

\* settled records how the subprocess of each keyword tried so far ended;
\* children are the processes searchWithRipgrep spawned and timers those
\* whose 30000 ms timer is still to fire, in the order the timers were set.
RgInit ==
    [settled |-> <<>>, kwIndex |-> 0, keywordResults |-> <<>>,
     intersectionFiles |-> <<>>, detailIndex |-> 0, results |-> <<>>,
     probe |-> ProbeInit, children |-> <<>>, timers |-> <<>>]

ScanInit ==
    [workQueue |-> <<>>, workers |-> <<>>, results |-> <<>>, processedFiles |-> 0,
     totalFiles |-> 0, batchSize |-> 0, taken |-> <<>>]

OutInit == [outcome |-> "none", usedPath |-> "none", returned |-> <<>>]

\* index is IndexManager.index, disk the document at indexPath, stale the
\* value of the last isIndexOutdated call since the last change, walk the
\* buildSearchIndex call under way (null when there is none), cleared how
\* the last clearIndex call ended if nothing was saved or loaded since.
IdxInit ==
    [index |-> <<>>, builtWith |-> 0, updates |-> 0, outcome |-> "none", returned |-> <<>>,
     disk |-> <<>>, stale |-> <<>>, changes |-> 0, walk |-> <<>>, cleared |-> "none"]

\* searchCache as the script declares it.
EmptyCache == [keywords |-> <<>>, results |-> <<>>, timestamp |-> 0]

\* The script of the webview when the panel opens: now is Date.now(),
\* input is the text typed and submitted holds once the entry point has
\* parsed it (sessions that start from a keyword list have no input);
\* toExt and toView are the messages posted and not yet handled, running
\* the keyword lists of the _handleSearch calls under way, asked the last
\* decision of handleSearch and last the last query completed; boxes the
\* two check boxes once the user has changed one (null while they show what
\* handleConfigData set), toConfig the updateConfig messages posted and
\* not yet handled, toggles the changes of a check box so far.
ViewInit ==
    [searchCache |-> EmptyCache, isSearching |-> FALSE, now |-> 1,
     toExt |-> <<>>, toView |-> <<>>, running |-> <<>>,
     asked |-> <<>>, last |-> <<>>, queries |-> 0, elapses |-> 0,
     input |-> <<>>, submitted |-> FALSE,
     boxes |-> <<>>, toConfig |-> <<>>, toggles |-> 0]

ProcessInit ==
    /\ pc = "idle"
    /\ cancelled = FALSE
    /\ spawnedAny = FALSE
    /\ enumeratedAny = FALSE
    /\ rg = RgInit
    /\ scan = ScanInit
    /\ out = OutInit
    /\ msgs = <<>>
    /\ reports = <<>>
    /\ idx = IdxInit
    /\ view = ViewInit

\* Small workspaces, every keyword list and flag setting.
Init ==
    /\ files \in SmallWorkspaces
    /\ workspaceOpen \in BOOLEAN
    /\ config \in [caseSensitive : BOOLEAN, wholeWord : BOOLEAN,
                   maxFileSize : {DefaultMaxFileSizeKB}]
    /\ cpuCount \in 1..MaxCpu
    /\ keywords \in KeywordLists
    /\ entry \in {"webview", "command"}
    /\ ProcessInit

(***************************************************************************)
(* searchKeywordsIntersection                                              *)
(*                                                                         *)
(* A step of the query runs from one await to the next.  The operators     *)
(* below compute where a step ends: a record of the new pc, rg, scan, out, *)
(* the flags and the progress reports made on the way.                     *)
(***************************************************************************)

RECURSIVE Ascending(_)
\* The paths of S in ascending localeCompare order.
Ascending(S) ==
    IF S = {} THEN <<>>
    ELSE LET least == CHOOSE p \in S : \A q \in S : LocaleCompare(p, q) <= 0
         IN <<least>> \o Ascending(S \ {least})

Reverse(s) == [i \in 1..Len(s) |-> s[Len(s) + 1 - i]]

\* The orders in which an enumeration (findFiles, the utility's output)
\* lists the files of S.
ListingOrders(S) == {Ascending(S), Reverse(Ascending(S))}

SeqToSet(s) == {s[i] : i \in 1..Len(s)}

\* Array.prototype.filter on a sequence, by membership in keep.
FilterIn(s, keep) ==
    LET F[i \in 0..Len(s)] ==
            IF i = 0 THEN <<>>
            ELSE IF s[i] \in keep THEN Append(F[i - 1], s[i]) ELSE F[i - 1]
    IN F[Len(s)]

\* A step that leaves searchKeywordsIntersection by "return value".
ReturnFrom(value, path, rgRec, scanRec, reps, enumerated) ==
    [pc |-> "done", rg |-> rgRec, scan |-> scanRec,
     out |-> [outcome |-> "returned", usedPath |-> path, returned |-> value],
     reps |-> reps, enumeratedAny |-> enumerated, spawnedAny |-> spawnedAny]

\* A step that ends at an await.
SuspendAt(label, rgRec, scanRec, reps, enumerated, spawned) ==
    [pc |-> label, rg |-> rgRec, scan |-> scanRec, out |-> out,
     reps |-> reps, enumeratedAny |-> enumerated, spawnedAny |-> spawned]

\* keywordResults.set(keyword, new Set(files)) on the insertion-ordered Map.
MapSet(map, keyword, fileSeq) ==
    IF \E i \in 1..Len(map) : map[i].keyword = keyword
    THEN [i \in 1..Len(map) |->
            IF map[i].keyword = keyword
            THEN [keyword |-> keyword, files |-> fileSeq] ELSE map[i]]
    ELSE Append(map, [keyword |-> keyword, files |-> fileSeq])

RECURSIVE IntersectFrom(_, _, _)
IntersectFrom(map, i, acc) ==
    IF i > Len(map) THEN acc
    ELSE IntersectFrom(map, i + 1, FilterIn(acc, SeqToSet(map[i].files)))

\* intersectionFiles of tryRipgrepSearch, in the iteration order of the Set.
IntersectionFiles(map) == IntersectFrom(map, 2, map[1].files)

\* generateDetailedResult: null for an ignored file, else containsAllKeywords.
generateDetailedResult(path, file, kws, cfg) ==
    IF file.ignored THEN <<>>
    ELSE containsAllKeywords(path, file, kws, cfg.caseSensitive, cfg.wholeWord,
                             cfg.maxFileSize)

\* The detail loop of tryRipgrepSearch reaches its head with index j.
RgDetailLoop(j, rgRec, reps) ==
    IF j <= Len(rgRec.intersectionFiles)
    THEN IF cancelled
         THEN ReturnFrom(<<>>, "fast", rgRec, scan, reps, enumeratedAny)
         ELSE SuspendAt("detail", [rgRec EXCEPT !.detailIndex = j], scan, reps,
                        enumeratedAny, spawnedAny)
    ELSE ReturnFrom(rgRec.results, "fast", rgRec, scan, reps, enumeratedAny)

\* The keyword loop of tryRipgrepSearch reaches its head with index i.
RgKeywordLoop(i, rgRec, reps) ==
    IF i <= Len(keywords)
    THEN IF cancelled
         THEN ReturnFrom(<<>>, "fast", rgRec, scan, reps, enumeratedAny)
         ELSE SuspendAt("rg", [rgRec EXCEPT !.kwIndex = i], scan,
                        Append(reps, <<70, Len(keywords)>>), enumeratedAny, TRUE)
    ELSE IF Len(rgRec.keywordResults) = 0
    THEN ReturnFrom(<<>>, "fast", rgRec, scan, reps, enumeratedAny)
    ELSE RgDetailLoop(1, [rgRec EXCEPT !.intersectionFiles =
                                          IntersectionFiles(rgRec.keywordResults)],
                      Append(reps, <<15, 1>>))

\* tryRipgrepSearch returned null: the scan path starts with findAllFiles.
FallbackToScan(rgRec, reps) ==
    SuspendAt("enumerate", rgRec, scan, Append(reps, <<5, 1>>), TRUE, spawnedAny)

\* A searchWithRipgrep that resolves with no files on an unexpected exit
\* status instead of rejecting.
searchWithRipgrepLenient(how, listed) ==
    IF how \in {"exit", "badexit"}
    THEN [kind |-> "resolve", files |-> listed]
    ELSE [kind |-> "reject", files |-> <<>>]

\* The promise of searchWithRipgrep settles: resolved with the listed files
\* on exit status 0 or 1 (listed is empty on 1), rejected when the spawn
\* fails, on any other exit status and on the timeout.
searchWithRipgrep(how, listed) ==
    IF how = "exit"
    THEN [kind |-> "resolve", files |-> listed]
    ELSE [kind |-> "reject", files |-> <<>>]

\* A workspace test that never fails.
WorkspaceMissingNever == FALSE

\* The workspace test of searchKeywordsIntersection and tryRipgrepSearch.
WorkspaceMissing == ~workspaceOpen

\* A count that adds one for a batch whatever its length.
CountProcessedByOne(processed, batch) == processed + 1

\* processedFiles += batch.length.
CountProcessed(processed, batch) == processed + Len(batch)

\* The batch size searchFilesInParallel computes.
BatchSize(cpus, total) ==
    LET doubled == cpus * 2
        capped == IF doubled < 20 THEN doubled ELSE 20
        baseBatchSize == IF capped > 5 THEN capped ELSE 5
        tenth == (total + BatchDivisor - 1) \div BatchDivisor
    IN IF baseBatchSize < tenth THEN baseBatchSize ELSE tenth

\* maxConcurrentWorkers.
WorkerCount(cpus) == IF cpus < MaxWorkers THEN cpus ELSE MaxWorkers

\* workQueue.splice(0, batchSize): the batch removed.
SpliceBatch(queue, size) ==
    SubSeq(queue, 1, IF size < Len(queue) THEN size ELSE Len(queue))

\* A worker loop that does not look at the cancellation token.
WorkerLoopHeedless(scanRec, w) ==
    IF Len(scanRec.workQueue) > 0
    THEN LET batch == SpliceBatch(scanRec.workQueue, scanRec.batchSize)
         IN [scanRec EXCEPT
                !.workQueue = SubSeq(scanRec.workQueue, Len(batch) + 1,
                                     Len(scanRec.workQueue)),
                !.workers[w] = [state |-> "running", batch |-> batch],
                !.taken = Append(scanRec.taken, batch)]
    ELSE [scanRec EXCEPT !.workers[w] = [state |-> "done", batch |-> <<>>]]

\* A worker loop that ends when the queue holds less than a whole batch.
WorkerLoopWholeBatches(scanRec, w) ==
    IF Len(scanRec.workQueue) >= scanRec.batchSize /\ ~cancelled
    THEN LET batch == SpliceBatch(scanRec.workQueue, scanRec.batchSize)
         IN [scanRec EXCEPT
                !.workQueue = SubSeq(scanRec.workQueue, Len(batch) + 1,
                                     Len(scanRec.workQueue)),
                !.workers[w] = [state |-> "running", batch |-> batch],
                !.taken = Append(scanRec.taken, batch)]
    ELSE [scanRec EXCEPT !.workers[w] = [state |-> "done", batch |-> <<>>]]

\* A worker loop that leaves the last file of its batch in the queue.
WorkerLoopLeavingLast(scanRec, w) ==
    IF Len(scanRec.workQueue) > 0 /\ ~cancelled
    THEN LET batch == SpliceBatch(scanRec.workQueue, scanRec.batchSize)
         IN [scanRec EXCEPT
                !.workQueue = SubSeq(scanRec.workQueue,
                                     IF Len(scanRec.workQueue) > Len(batch)
                                     THEN Len(batch) ELSE Len(batch) + 1,
                                     Len(scanRec.workQueue)),
                !.workers[w] = [state |-> "running", batch |-> batch],
                !.taken = Append(scanRec.taken, batch)]
    ELSE [scanRec EXCEPT !.workers[w] = [state |-> "done", batch |-> <<>>]]

\* The head of createWorker's while loop for worker w: it takes the next
\* batch, or ends when the queue is empty or cancellation is requested.
WorkerLoop(scanRec, w) ==
    IF Len(scanRec.workQueue) > 0 /\ ~cancelled
    THEN LET batch == SpliceBatch(scanRec.workQueue, scanRec.batchSize)
         IN [scanRec EXCEPT
                !.workQueue = SubSeq(scanRec.workQueue, Len(batch) + 1,
                                     Len(scanRec.workQueue)),
                !.workers[w] = [state |-> "running", batch |-> batch],
                !.taken = Append(scanRec.taken, batch)]
    ELSE [scanRec EXCEPT !.workers[w] = [state |-> "done", batch |-> <<>>]]

RECURSIVE StartWorkers(_, _)
\* The loop that creates the workers: each runs to its first await.
StartWorkers(scanRec, w) ==
    IF w > Len(scanRec.workers) THEN scanRec
    ELSE StartWorkers(WorkerLoop(scanRec, w), w + 1)

\* What one file of a batch contributes: containsAllKeywords inside the
\* worker's own try/catch, so that a failure counts as null.
BatchFileResult(path, kws, cfg) ==
    containsAllKeywords(path, files[path], kws, cfg.caseSensitive, cfg.wholeWord,
                        cfg.maxFileSize)

\* A batch that yields nothing as soon as one of its files fails.
BatchResultsAborting(batch, kws, cfg) ==
    IF \E i \in 1..Len(batch) : ~files[batch[i]].readable
    THEN <<>>
    ELSE Flatten([i \in 1..Len(batch) |-> BatchFileResult(batch[i], kws, cfg)])

\* The non-null results of a batch, in batch order.
BatchResults(batch, kws, cfg) ==
    Flatten([i \in 1..Len(batch) |-> BatchFileResult(batch[i], kws, cfg)])

\* Math.floor((processedFiles / totalFiles) * 80) + 10.
ProgressPercent(processed, total) == ((processed * 80) \div total) + 10

\* A scan that returns the empty list once cancellation is requested.
ScanReturnValueDropping(accumulated) ==
    IF cancelled THEN <<>> ELSE SortByPath(accumulated)

\* The value searchKeywordsIntersection returns from the scan path.
ScanReturnValue(accumulated) == SortByPath(accumulated)

\* The tail of searchKeywordsIntersection once every worker has ended.
ScanFinished(scanRec, reps) ==
    ReturnFrom(ScanReturnValue(scanRec.results), "scan", rg, scanRec,
               Append(reps, <<100, 1>>), enumeratedAny)

\* The messages a step posts to the webview: one searchProgress for each
\* report, then searchCompleted when the query returned.
StepMessages(c) ==
    IF entry # "webview" THEN <<>>
    ELSE [i \in 1..(Len(c.reps) - Len(reports)) |-> "searchProgress"]
         \o (IF c.out.outcome = "returned" THEN <<"searchCompleted">> ELSE <<>>)

\* The state after a step that ends as the record c says.
Apply(step) ==
    \E c \in {step} :
        /\ pc' = c.pc
        /\ rg' = c.rg
        /\ scan' = c.scan
        /\ out' = c.out
        /\ reports' = c.reps
        /\ enumeratedAny' = c.enumeratedAny
        /\ spawnedAny' = c.spawnedAny
        /\ msgs' = msgs \o StepMessages(c)

\* The entry point runs up to the availability check: _handleSearch of the
\* panel or the searchKeywords command, then searchKeywordsIntersection up
\* to its first await.
StartQuery ==
    /\ pc = "idle"
    /\ idx = IdxInit
    /\ view.input = <<>> \/ view.submitted
    /\ UNCHANGED <<envVars, config, cancelled, idx, view>>
    /\ IF (entry = "webview" /\ Len(keywords) = 0) \/ (entry = "command" /\ Len(keywords) < 2)
       THEN /\ pc' = "done"
            /\ out' = [out EXCEPT !.outcome = "rejected"]
            /\ msgs' = IF entry = "webview" THEN Append(msgs, "searchError") ELSE msgs
            /\ UNCHANGED <<spawnedAny, enumeratedAny, rg, scan, reports>>
       ELSE IF WorkspaceMissing
       THEN /\ pc' = "done"
            /\ out' = [out EXCEPT !.outcome = "threw"]
            /\ msgs' = IF entry = "webview"
                       THEN msgs \o <<"searchStarted", "searchError">> ELSE msgs
            /\ UNCHANGED <<spawnedAny, enumeratedAny, rg, scan, reports>>
       ELSE /\ pc' = "probe"
            /\ spawnedAny' = TRUE
            /\ reports' = Append(reports, <<0, 1>>)
            /\ msgs' = IF entry = "webview"
                       THEN msgs \o <<"searchStarted", "searchProgress">> ELSE msgs
            /\ UNCHANGED <<enumeratedAny, rg, scan, out>>

\* tryRipgrepSearch after `await checkRipgrepAvailable()`; usable is
\* ripgrepInfo.available && ripgrepInfo.path.
AfterProbe(usable) ==
    IF ~usable
    THEN FallbackToScan(rg, reports)
    ELSE IF WorkspaceMissing
    THEN FallbackToScan(rg, Append(reports, <<5, 1>>))
    ELSE RgKeywordLoop(1, rg, Append(reports, <<5, 1>>))

\* checkRipgrepAvailable settles: the utility is available or it is not.
ProbeDone ==
    /\ pc = "probe"
    /\ UNCHANGED <<envVars, config, cancelled, idx, view>>
    /\ \E available \in BOOLEAN : Apply(AfterProbe(available))

\* tryRipgrepSearch after `await searchWithRipgrep(...)` for keyword
\* kwIndex: settled is how the promise settled, how the event that did it.
AfterRipgrep(settled, how) ==
    IF settled.kind = "resolve"
    THEN RgKeywordLoop(rg.kwIndex + 1,
                       [rg EXCEPT !.settled = Append(@, how),
                                  !.keywordResults =
                                      MapSet(@, keywords[rg.kwIndex], settled.files)],
                       reports)
    ELSE FallbackToScan([RgInit EXCEPT !.settled = Append(rg.settled, how)], reports)

\* The subprocess of searchWithRipgrep for keyword kwIndex settles: it
\* exits with 0 or 1 and its output is the candidate set, or it fails to
\* spawn, exits with another status or times out.
RgExit ==
    /\ pc = "rg"
    /\ UNCHANGED <<envVars, config, cancelled, idx, view>>
    /\ \E how \in {"exit", "error", "badexit", "timeout"} :
       \E listed \in IF how = "exit"
                     THEN ListingOrders({p \in DOMAIN files :
                              RgFileMatches(files[p], keywords[rg.kwIndex],
                                            ~config.caseSensitive)})
                     ELSE {<<>>} :
         Apply(AfterRipgrep(searchWithRipgrep(how, listed), how))

\* generateDetailedResult for intersection file detailIndex settles; for a
\* path that names no file fs.promises.stat rejects and the result is null.
DetailDone ==
    /\ pc = "detail"
    /\ UNCHANGED <<envVars, config, cancelled, idx, view>>
    /\ LET path == rg.intersectionFiles[rg.detailIndex]
           result == IF path \in DOMAIN files
                     THEN generateDetailedResult(path, files[path], keywords, config)
                     ELSE <<>>
       IN Apply(RgDetailLoop(rg.detailIndex + 1,
                             [rg EXCEPT !.results = rg.results \o result], reports))

\* findAllFiles settles with the candidate files; searchFilesInParallel
\* fills the work queue and starts the workers.
EnumerateDone ==
    /\ pc = "enumerate"
    /\ UNCHANGED <<envVars, config, cancelled, idx, view>>
    /\ \E allFiles \in ListingOrders({p \in DOMAIN files : ~files[p].ignored}) :
         IF cancelled \/ Len(allFiles) = 0
         THEN Apply(ReturnFrom(<<>>, "scan", rg, scan, reports, enumeratedAny))
         ELSE Apply(SuspendAt("scan", rg,
                      StartWorkers(
                        [workQueue |-> allFiles,
                         workers |-> [w \in 1..WorkerCount(cpuCount) |->
                                        [state |-> "created", batch |-> <<>>]],
                         results |-> <<>>,
                         processedFiles |-> 0,
                         totalFiles |-> Len(allFiles),
                         batchSize |-> BatchSize(cpuCount, Len(allFiles)),
                         taken |-> <<>>], 1),
                      Append(reports, <<10, 1>>), enumeratedAny, spawnedAny))

\* The batch of worker w settles: the worker collects its results, counts
\* the files, reports progress and goes round its loop; the scan returns
\* when the last worker ends.
WorkerBatchDone(w) ==
    /\ pc = "scan"
    /\ w \in DOMAIN scan.workers
    /\ scan.workers[w].state = "running"
    /\ UNCHANGED <<envVars, config, cancelled, idx, view>>
    /\ \E collected \in
            {[scan EXCEPT
                !.results = scan.results
                            \o BatchResults(scan.workers[w].batch, keywords, config),
                !.processedFiles = CountProcessed(scan.processedFiles,
                                                  scan.workers[w].batch)]} :
       LET reps == Append(reports, <<ProgressPercent(collected.processedFiles,
                                                     collected.totalFiles), 1>>)
       IN \E looped \in {WorkerLoop(collected, w)} :
            IF \A v \in 1..Len(looped.workers) : looped.workers[v].state = "done"
            THEN Apply(ScanFinished(looped, reps))
            ELSE Apply(SuspendAt("scan", rg, looped, reps, enumeratedAny, spawnedAny))

\* The user cancels the progress notification of the command.
Cancel ==
    /\ entry = "command"
    /\ pc \in {"probe", "rg", "detail", "enumerate", "scan"}
    /\ ~cancelled
    /\ cancelled' = TRUE
    /\ UNCHANGED <<envVars, config, pc, spawnedAny, enumeratedAny, rg, scan, out,
                   msgs, reports, idx, view>>

(***************************************************************************)
(* Index session                                                           *)
(***************************************************************************)

\* _handleUpdateConfig with a new maxFileSize: the setting is written and
\* the webview is told.
UpdateConfig ==
    /\ pc = "idle"
    /\ idx.outcome = "none"
    /\ idx.updates < MaxConfigUpdates
    /\ \E size \in MaxFileSizeChoices \ {config.maxFileSize} :
         config' = [config EXCEPT !.maxFileSize = size]
    /\ idx' = [idx EXCEPT !.updates = idx.updates + 1]
    /\ msgs' = Append(msgs, "configUpdated")
    /\ UNCHANGED <<envVars, queryVars, view>>

\* The document saveIndex writes: every Map as an object, every Set as an
\* array.
SerializeIndex(index) ==
    [version |-> index.version,
     createdAt |-> index.createdAt,
     updatedAt |-> index.updatedAt,
     totalFiles |-> index.totalFiles,
     totalWords |-> index.totalWords,
     files |-> [p \in DOMAIN index.files |->
                  [index.files[p] EXCEPT !.words = SetToSeq(index.files[p].words)]],
     wordToFiles |-> [w \in DOMAIN index.wordToFiles |-> SetToSeq(index.wordToFiles[w])]]

\* A loadIndex that rebuilds every entry without its lines.
loadIndexWithoutLines(hasPath, disk) ==
    IF ~hasPath \/ disk = <<>> THEN <<>>
    ELSE <<[version |-> disk[1].version,
            createdAt |-> disk[1].createdAt,
            updatedAt |-> disk[1].updatedAt,
            totalFiles |-> disk[1].totalFiles,
            totalWords |-> disk[1].totalWords,
            files |-> [p \in DOMAIN disk[1].files |->
                         [relativePath |-> disk[1].files[p].relativePath,
                          lastModified |-> disk[1].files[p].lastModified,
                          fileSize |-> disk[1].files[p].fileSize,
                          lines |-> <<>>,
                          words |-> SeqToSet(disk[1].files[p].words)]],
            wordToFiles |-> [w \in DOMAIN disk[1].wordToFiles |->
                               SeqToSet(disk[1].wordToFiles[w])]]>>

\* loadIndex: null without an index path or without a document, else the
\* index rebuilt from the document, every array as a Set again.
loadIndex(hasPath, disk) ==
    IF ~hasPath \/ disk = <<>> THEN <<>>
    ELSE <<[version |-> disk[1].version,
            createdAt |-> disk[1].createdAt,
            updatedAt |-> disk[1].updatedAt,
            totalFiles |-> disk[1].totalFiles,
            totalWords |-> disk[1].totalWords,
            files |-> [p \in DOMAIN disk[1].files |->
                         [relativePath |-> disk[1].files[p].relativePath,
                          lastModified |-> disk[1].files[p].lastModified,
                          fileSize |-> disk[1].files[p].fileSize,
                          lines |-> disk[1].files[p].lines,
                          words |-> SeqToSet(disk[1].files[p].words)]],
            wordToFiles |-> [w \in DOMAIN disk[1].wordToFiles |->
                               SeqToSet(disk[1].wordToFiles[w])]]>>

\* An isIndexOutdated that compares the file lists and not the mtimes.
isIndexOutdatedByList(loaded, onDisk) ==
    IF loaded = <<>> THEN TRUE
    ELSE LET index == loaded[1]
             uniqueFiles == {p \in DOMAIN onDisk : ~onDisk[p].ignored}
         IN \/ Cardinality(uniqueFiles) # index.totalFiles
            \/ \E p \in uniqueFiles : p \notin DOMAIN index.files

\* isIndexOutdated on the loaded index (or null) and the files on disk.
isIndexOutdated(loaded, onDisk) ==
    IF loaded = <<>> THEN TRUE
    ELSE LET index == loaded[1]
             uniqueFiles == {p \in DOMAIN onDisk : ~onDisk[p].ignored}
         IN \/ Cardinality(uniqueFiles) # index.totalFiles
            \/ \E p \in uniqueFiles :
                 \/ p \notin DOMAIN index.files
                 \/ onDisk[p].mtime # index.files[p].lastModified

\* buildSearchIndex runs to completion without cancellation; saveIndex
\* writes the document and keeps the index in memory unless there is no
\* workspace folder.
BuildSearchIndex ==
    /\ pc = "idle"
    /\ idx.outcome = "none"
    /\ idx' = IF workspaceOpen
              THEN LET built == BuildIndex(files, {p \in DOMAIN files : ~files[p].ignored},
                                           config.maxFileSize, view.now)
                   IN [idx EXCEPT !.index = <<built>>,
                               !.disk = <<SerializeIndex(built)>>,
                               !.builtWith = config.maxFileSize,
                               !.stale = <<>>,
                               !.cleared = "none"]
              ELSE [idx EXCEPT !.stale = <<>>, !.cleared = "none"]
    /\ UNCHANGED <<envVars, config, queryVars, view, msgs>>

\* searchWithIndex(keywords, caseSensitive) on the index in memory.
SearchWithIndex ==
    /\ pc = "idle"
    /\ idx.outcome = "none"
    /\ idx' = IF idx.index = <<>>
              THEN [idx EXCEPT !.outcome = "threw"]
              ELSE [idx EXCEPT !.outcome = "returned",
                               !.returned = searchWithIndex(idx.index[1], files, keywords,
                                                            config.caseSensitive)]
    /\ UNCHANGED <<envVars, config, queryVars, view, msgs>>

Next ==
    \/ StartQuery
    \/ ProbeDone
    \/ RgExit
    \/ DetailDone
    \/ EnumerateDone
    \/ \E w \in 1..MaxWorkers : WorkerBatchDone(w)
    \/ Cancel

Spec == Init /\ [][Next]_vars

\* Large workspaces, where a batch holds more than one file.
InitScan ==
    /\ \E n \in (BatchDivisor + 1)..MaxScanFiles : \E u \in {0, 2} :
         files = ScanWorkspace(n, u)
    /\ workspaceOpen = TRUE
    /\ config = [caseSensitive |-> FALSE, wholeWord |-> FALSE,
                 maxFileSize |-> DefaultMaxFileSizeKB]
    /\ cpuCount \in {1, MaxWorkers}
    /\ keywords = <<<<"a">>, <<"b">>>>
    /\ entry = "command"
    /\ ProcessInit

SpecScan == InitScan /\ [][Next]_vars

\* A worker sits at the await of its batch: the state in which
\* WorkerBatchDone can be taken.
WorkerAwaiting ==
    /\ pc = "scan"
    /\ \E w \in DOMAIN scan.workers : scan.workers[w].state = "running"

\* The large workspaces with every awaited batch settling. The conjunct is
\* weak fairness of the worker step, WF_vars(\E w : WorkerBatchDone(w)),
\* written out with the step's enabling condition: Promise.all over
\* promises of file reads that each resolve or reject.
SpecScanLive ==
    /\ InitScan
    /\ [][Next]_vars
    /\ \/ []<>~WorkerAwaiting
       \/ []<><<\E w \in 1..MaxWorkers : WorkerBatchDone(w)>>_vars

\* Index sessions on the small workspaces.
InitIndex ==
    /\ files \in SmallWorkspaces
    /\ workspaceOpen \in BOOLEAN
    /\ config \in [caseSensitive : BOOLEAN, wholeWord : BOOLEAN,
                   maxFileSize : {DefaultMaxFileSizeKB}]
    /\ cpuCount = 1
    /\ keywords \in KeywordLists
    /\ entry = "webview"
    /\ ProcessInit

NextIndex ==
    \/ UpdateConfig
    \/ BuildSearchIndex
    \/ SearchWithIndex

SpecIndex == InitIndex /\ [][NextIndex]_vars

\* isIndexOutdated: the index is loaded from the document (and kept in
\* memory when it loads), then compared with the files on disk.
IsIndexOutdated ==
    /\ pc = "idle"
    /\ idx.outcome = "none"
    /\ idx.stale = <<>>
    /\ \E loaded \in {loadIndex(workspaceOpen, idx.disk)} :
         idx' = [idx EXCEPT !.index = IF loaded = <<>> THEN idx.index ELSE loaded,
                            !.stale = <<isIndexOutdated(loaded, files)>>,
                            !.cleared = "none"]
    /\ UNCHANGED <<envVars, config, queryVars, view, msgs>>

\* What every change of the files on disk does to the session.
FileChanged ==
    /\ pc = "idle"
    /\ idx.outcome = "none"
    /\ idx.changes < MaxFileChanges
    /\ idx' = [idx EXCEPT !.changes = idx.changes + 1, !.stale = <<>>]
    /\ UNCHANGED <<workspaceOpen, cpuCount, keywords, entry, config, queryVars, view, msgs>>

\* A file is written: its mtime moves on, its content stays or changes.
ModifyFile ==
    /\ FileChanged
    /\ \E p \in DOMAIN files : \E content \in {files[p].content, <<"b">>} :
         files' = [files EXCEPT ![p] = [files[p] EXCEPT !.mtime = files[p].mtime + 1,
                                                        !.content = content,
                                                        !.chunks = <<content>>]]

\* A file is removed.
DeleteFile ==
    /\ FileChanged
    /\ \E p \in DOMAIN files :
         files' = [q \in DOMAIN files \ {p} |-> files[q]]

\* A file is created.
CreateFile ==
    /\ FileChanged
    /\ PathOf(3) \notin DOMAIN files
    /\ files' = [q \in DOMAIN files \cup {PathOf(3)} |->
                    IF q = PathOf(3) THEN UpperFile ELSE files[q]]

\* Index sessions in which the files on disk change.
InitStale ==
    /\ files \in {w \in SmallWorkspaces :
                    \A p \in DOMAIN w : w[p] \in {UpperFile, PlainFile, OverFile, IgnoredFile}}
    /\ workspaceOpen \in BOOLEAN
    /\ config \in [caseSensitive : BOOLEAN, wholeWord : {FALSE},
                   maxFileSize : {DefaultMaxFileSizeKB}]
    /\ cpuCount = 1
    /\ keywords \in {<<<<"A", "b">>>>, <<<<"a">>>>}
    /\ entry = "webview"
    /\ ProcessInit

NextStale ==
    \/ BuildSearchIndex
    \/ IsIndexOutdated
    \/ SearchWithIndex
    \/ ModifyFile
    \/ DeleteFile
    \/ CreateFile

SpecStale == InitStale /\ [][NextStale]_vars

\* hasIndex: there is an index path and the document can be accessed.
hasIndex(hasPath, disk) == hasPath /\ disk # <<>>

\* clearIndex: nothing without an index path; else the document is
\* unlinked and then the index in memory dropped.  unlink rejects with
\* ENOENT when there is no document, which is swallowed, and may reject
\* with another code (unlinkFails), which is thrown on.
clearIndex(hasPath, index, disk, unlinkFails) ==
    IF ~hasPath THEN [index |-> index, disk |-> disk, cleared |-> "returned"]
    ELSE IF disk = <<>> THEN [index |-> index, disk |-> disk, cleared |-> "returned"]
    ELSE IF unlinkFails THEN [index |-> index, disk |-> disk, cleared |-> "threw"]
    ELSE [index |-> <<>>, disk |-> <<>>, cleared |-> "returned"]

\* A call of IndexManager.clearIndex.
ClearIndex ==
    /\ pc = "idle"
    /\ idx.outcome = "none"
    /\ \E unlinkFails \in BOOLEAN :
         \E after \in {clearIndex(workspaceOpen, idx.index, idx.disk, unlinkFails)} :
            idx' = [idx EXCEPT !.index = after.index,
                               !.disk = after.disk,
                               !.cleared = after.cleared]
    /\ UNCHANGED <<envVars, config, queryVars, view, msgs>>

\* The index document is removed from the workspace by something else
\* than this IndexManager (the user, another window on the same folder).
DocumentRemoved ==
    /\ pc = "idle"
    /\ idx.outcome = "none"
    /\ idx.disk # <<>>
    /\ idx' = [idx EXCEPT !.disk = <<>>]
    /\ UNCHANGED <<envVars, config, queryVars, view, msgs>>

NextClear ==
    \/ BuildSearchIndex
    \/ IsIndexOutdated
    \/ SearchWithIndex
    \/ ClearIndex
    \/ DocumentRemoved
    \/ ModifyFile

\* Index sessions in which the index is cleared.
SpecClear == InitStale /\ [][NextClear]_vars

(***************************************************************************)
(* buildSearchIndex from await to await                                    *)
(*                                                                         *)
(* The walk indexes the candidate files in batches of five and tests the   *)
(* cancellation token at the head of every batch; after the loop, ended or *)
(* broken off, it sets the totals and calls saveIndex.                     *)
(***************************************************************************)

\* batchSize of buildSearchIndex.
IndexBatchSize == 5

\* The most files of a workspace that is indexed batch by batch.
MaxBuildFiles == 8

\* n files with a word of two letters each; file u (if any) cannot be read
\* and file u + 1 is over the size ceiling.
BuildWorkspace(n, u) ==
    [p \in {PathOf(i) : i \in 1..n} |->
        LET i == CHOOSE k \in 1..n : PathOf(k) = p
        IN IF u > 0 /\ i = u THEN FileOf(<<"A", "b">>, <<<<"A", "b">>>>, SmallSize, FALSE, FALSE)
           ELSE IF u > 0 /\ i = u + 1 THEN OverFile
           ELSE IF i % 2 = 0 THEN UpperFile
           ELSE FileOf(<<"b", "a", " ", "a", "b">>, <<<<"b", "a", " ", "a", "b">>>>,
                       SmallSize, TRUE, FALSE)]

\* The head of the batch loop with done files walked: the next batch is
\* awaited, or the loop is over (or broken off by cancellation) and the
\* index of the files walked so far is saved.
BuildLoop(uniqueFiles, done) ==
    IF done < Len(uniqueFiles) /\ ~cancelled
    THEN [idx EXCEPT !.walk = <<[stage |-> "batch", uniqueFiles |-> uniqueFiles,
                                 done |-> done]>>]
    ELSE \* saveIndex
         LET built == BuildIndex(files, {uniqueFiles[i] : i \in 1..done},
                                 config.maxFileSize, view.now)
         IN [idx EXCEPT !.walk = <<>>,
                        !.index = <<built>>,
                        !.disk = <<SerializeIndex(built)>>,
                        !.builtWith = config.maxFileSize,
                        !.stale = <<>>]

\* buildSearchIndex is called and runs to `await findFiles(...)`.
BuildStart ==
    /\ pc = "idle"
    /\ idx.outcome = "none"
    /\ idx.walk = <<>>
    /\ idx.disk = <<>>
    /\ idx' = [idx EXCEPT !.walk = <<[stage |-> "enumerate", uniqueFiles |-> <<>>,
                                      done |-> 0]>>]
    /\ UNCHANGED <<envVars, config, queryVars, view, msgs>>

\* findFiles settles: the candidates are listed and the batch loop starts.
BuildEnumerated ==
    /\ idx.walk # <<>>
    /\ idx.walk[1].stage = "enumerate"
    /\ \E uniqueFiles \in ListingOrders({p \in DOMAIN files : ~files[p].ignored}) :
         idx' = BuildLoop(uniqueFiles, 0)
    /\ UNCHANGED <<envVars, config, queryVars, view, msgs>>

\* The batch awaited settles: its entries are added and the loop goes on.
BuildBatchDone ==
    /\ idx.walk # <<>>
    /\ idx.walk[1].stage = "batch"
    /\ LET uniqueFiles == idx.walk[1].uniqueFiles
           next == idx.walk[1].done + IndexBatchSize
       IN idx' = BuildLoop(uniqueFiles,
                           IF next > Len(uniqueFiles) THEN Len(uniqueFiles) ELSE next)
    /\ UNCHANGED <<envVars, config, queryVars, view, msgs>>

\* The user cancels the progress notification of the build.
CancelBuild ==
    /\ idx.walk # <<>>
    /\ ~cancelled
    /\ cancelled' = TRUE
    /\ UNCHANGED <<envVars, config, pc, spawnedAny, enumeratedAny, rg, scan, out,
                   msgs, reports, idx, view>>

\* Workspaces of more files than one batch holds.
InitBuild ==
    /\ \E n \in (IndexBatchSize + 1)..MaxBuildFiles : \E u \in {0, 2, IndexBatchSize + 1} :
         files = BuildWorkspace(n, u)
    /\ workspaceOpen = TRUE
    /\ config = [caseSensitive |-> FALSE, wholeWord |-> FALSE,
                 maxFileSize |-> DefaultMaxFileSizeKB]
    /\ cpuCount = 1
    /\ keywords = <<<<"a", "b">>>>
    /\ entry = "command"
    /\ ProcessInit

NextBuild ==
    \/ BuildStart
    \/ BuildEnumerated
    \/ BuildBatchDone
    \/ CancelBuild

SpecBuild == InitBuild /\ [][NextBuild]_vars

(***************************************************************************)
(* The availability check of ripgrep                                       *)
(*                                                                         *)
(* checkRipgrepAvailable spawns `<bundled path> --version` when            *)
(* getRipgrepPath finds the bundled binary and `rg --version` through      *)
(* trySystemRipgrep otherwise.  Every child has an error handler, an exit  *)
(* handler and a 3000 ms timer that nothing clears; the handlers of the    *)
(* bundled child call trySystemRipgrep, those of a system child call       *)
(* resolve.  A path is a sequence of length 0 (null) or 1.                 *)
(***************************************************************************)

\* resolve(value) on the promise of checkRipgrepAvailable: the first call
\* settles the promise, a later call leaves its value.
ProbeResolve(p, available, path) ==
    [p EXCEPT !.resolves = @ + 1,
              !.resolved = IF @ # <<>> THEN @
                           ELSE <<[available |-> available, path |-> path]>>]

\* A trySystemRipgrep whose timer only kills the child.
trySystemRipgrepUntimed(p) ==
    [p EXCEPT !.children = Append(@, [binary |-> "system", error |-> FALSE,
                                      exit |-> FALSE, killed |-> FALSE])]

\* trySystemRipgrep: spawn('rg', ['--version']), its two handlers and its
\* timer.
trySystemRipgrep(p) ==
    [p EXCEPT !.children = Append(@, [binary |-> "system", error |-> FALSE,
                                      exit |-> FALSE, killed |-> FALSE]),
              !.timers = Append(@, Len(p.children) + 1)]

\* The executor of the promise of checkRipgrepAvailable; found says that
\* getRipgrepPath returned a path.
checkRipgrepAvailable(found) ==
    IF found
    THEN [ProbeInit EXCEPT
            !.children = <<[binary |-> "bundled", error |-> FALSE,
                            exit |-> FALSE, killed |-> FALSE]>>,
            !.timers = <<1>>]
    ELSE trySystemRipgrep(ProbeInit)

\* The 'error' event of child i.
ProbeChildError(i) ==
    /\ i \in DOMAIN rg.probe.children
    /\ ~rg.probe.children[i].error
    /\ LET p == [rg.probe EXCEPT !.children[i].error = TRUE]
       IN rg' = [rg EXCEPT !.probe =
                    IF p.children[i].binary = "bundled"
                    THEN trySystemRipgrep(p)
                    ELSE ProbeResolve(p, FALSE, <<>>)]
    /\ UNCHANGED <<envVars, config, pc, cancelled, spawnedAny, enumeratedAny, scan,
                   out, msgs, reports, idx, view>>

\* The 'exit' event of child i: code is 0 or it is not (a killed child
\* exits with code null).
ProbeChildExit(i) ==
    /\ i \in DOMAIN rg.probe.children
    /\ ~rg.probe.children[i].exit
    /\ \E code \in {0, 1} :
         LET p == [rg.probe EXCEPT !.children[i].exit = TRUE]
         IN rg' = [rg EXCEPT !.probe =
                      IF p.children[i].binary = "bundled"
                      THEN IF code = 0
                           THEN ProbeResolve(p, TRUE, <<"bundled">>)
                           ELSE trySystemRipgrep(p)
                      ELSE ProbeResolve(p, code = 0, <<"rg">>)]
    /\ UNCHANGED <<envVars, config, pc, cancelled, spawnedAny, enumeratedAny, scan,
                   out, msgs, reports, idx, view>>

\* The oldest timer fires: it kills its child, then goes on as the error
\* handler does.
ProbeTimeout ==
    /\ rg.probe.timers # <<>>
    /\ LET i == Head(rg.probe.timers)
           p == [rg.probe EXCEPT !.children[i].killed = TRUE,
                                 !.timers = Tail(@)]
       IN rg' = [rg EXCEPT !.probe =
                    IF p.children[i].binary = "bundled"
                    THEN trySystemRipgrep(p)
                    ELSE ProbeResolve(p, FALSE, <<>>)]
    /\ UNCHANGED <<envVars, config, pc, cancelled, spawnedAny, enumeratedAny, scan,
                   out, msgs, reports, idx, view>>

\* tryRipgrepSearch resumes with the value of the promise.
ProbeResumes ==
    /\ pc = "probe"
    /\ rg.probe.resolved # <<>>
    /\ UNCHANGED <<envVars, config, cancelled, idx, view>>
    /\ Apply(AfterProbe(/\ rg.probe.resolved[1].available
                        /\ rg.probe.resolved[1].path # <<>>))

\* A query at `await checkRipgrepAvailable()`, as StartQuery leaves it, the
\* executor of the promise run.
InitProbe ==
    /\ files = [p \in SmallPaths |-> PlainFile]
    /\ workspaceOpen = TRUE
    /\ config = [caseSensitive |-> FALSE, wholeWord |-> FALSE,
                 maxFileSize |-> DefaultMaxFileSizeKB]
    /\ cpuCount = 1
    /\ keywords = <<<<"a">>, <<"b">>>>
    /\ entry \in {"webview", "command"}
    /\ pc = "probe"
    /\ cancelled = FALSE
    /\ spawnedAny = TRUE
    /\ enumeratedAny = FALSE
    /\ \E found \in BOOLEAN : rg = [RgInit EXCEPT !.probe = checkRipgrepAvailable(found)]
    /\ scan = ScanInit
    /\ out = OutInit
    /\ msgs = IF entry = "webview" THEN <<"searchStarted", "searchProgress">> ELSE <<>>
    /\ reports = <<<<0, 1>>>>
    /\ idx = IdxInit
    /\ view = ViewInit

NextProbe ==
    \/ \E i \in DOMAIN rg.probe.children : ProbeChildError(i)
    \/ \E i \in DOMAIN rg.probe.children : ProbeChildExit(i)
    \/ ProbeTimeout
    \/ ProbeResumes

SpecProbe == InitProbe /\ [][NextProbe]_vars

\* Every timer that was set fires.
SpecProbeLive == SpecProbe /\ WF_vars(ProbeTimeout)

(***************************************************************************)
(* The webview panel: result cache and incremental refinement              *)
(***************************************************************************)

\* The age in milliseconds past which the cache is not used.
CacheTTL == 5 * 60 * 1000

\* A cache check that never looks at the age of the cache.
checkSearchCacheAgeless(searchCache, kws, now) ==
    LET No == [canUseCache |-> FALSE, cachedResults |-> <<>>, newKeywords |-> <<>>]
        cachedKeywords == searchCache.keywords
        isIncremental ==
            /\ Len(cachedKeywords) < Len(kws)
            /\ \A i \in 1..Len(cachedKeywords) : cachedKeywords[i] \in SeqToSet(kws)
    IN IF Len(searchCache.keywords) = 0 \/ Len(searchCache.results) = 0 THEN No
       ELSE IF isIncremental
       THEN [canUseCache |-> TRUE, cachedResults |-> searchCache.results,
             newKeywords |-> FilterIn(kws, SeqToSet(kws) \ SeqToSet(cachedKeywords))]
       ELSE No

\* checkSearchCache.
checkSearchCache(searchCache, kws, now) ==
    LET No == [canUseCache |-> FALSE, cachedResults |-> <<>>, newKeywords |-> <<>>]
        cachedKeywords == searchCache.keywords
        isIncremental ==
            /\ Len(cachedKeywords) < Len(kws)
            /\ \A i \in 1..Len(cachedKeywords) : cachedKeywords[i] \in SeqToSet(kws)
    IN IF Len(searchCache.keywords) = 0 \/ Len(searchCache.results) = 0 THEN No
       ELSE IF now - searchCache.timestamp > CacheTTL THEN No
       ELSE IF isIncremental
       THEN [canUseCache |-> TRUE, cachedResults |-> searchCache.results,
             newKeywords |-> FilterIn(kws, SeqToSet(kws) \ SeqToSet(cachedKeywords))]
       ELSE No

RECURSIVE JoinSnippets(_)
\* snippets.map(s => s.content).join(' ').
JoinSnippets(snippets) ==
    IF snippets = <<>> THEN <<>>
    ELSE IF Len(snippets) = 1 THEN snippets[1].content
    ELSE snippets[1].content \o <<" ">> \o JoinSnippets(Tail(snippets))

\* The text handleIncrementalSearch tests a cached result against: its
\* relative path, a blank and the text of its preview snippets.
SearchText(result, caseSensitive) ==
    LET text == result.relativePath \o <<" ">> \o JoinSnippets(result.preview.snippets)
    IN IF caseSensitive THEN text ELSE ToLowerCase(text)

\* The test of handleIncrementalSearch for one cached result.
KeepsResult(result, kws, caseSensitive, wholeWord) ==
    \A k \in 1..Len(kws) :
        LET searchKeyword == IF caseSensitive THEN kws[k] ELSE ToLowerCase(kws[k])
        IN IF wholeWord
           THEN WordRegexTest(SearchText(result, caseSensitive), searchKeyword, ~caseSensitive)
           ELSE Includes(SearchText(result, caseSensitive), searchKeyword)

\* Array.prototype.filter with the test of handleIncrementalSearch.
FilterResults(results, kws, caseSensitive, wholeWord) ==
    LET F[i \in 0..Len(results)] ==
            IF i = 0 THEN <<>>
            ELSE IF KeepsResult(results[i], kws, caseSensitive, wholeWord)
            THEN Append(F[i - 1], results[i]) ELSE F[i - 1]
    IN F[Len(results)]

\* caseSensitiveCheckbox.checked and wholeWordCheckbox.checked: what
\* handleConfigData set from the configuration when the panel loaded, or
\* what the user has set since.
CheckBoxes(v) ==
    IF v.boxes = <<>>
    THEN [caseSensitive |-> config.caseSensitive, wholeWord |-> config.wholeWord]
    ELSE v.boxes[1]

\* A refinement that adds what passes the test to the cached results.
handleIncrementalSearchAdding(kws, cachedResults, caseSensitive, wholeWord) ==
    cachedResults \o FilterResults(cachedResults, kws, caseSensitive, wholeWord)

\* handleIncrementalSearch: the cached results that pass the test for every
\* keyword of the new list, under the flags the two check boxes show.
handleIncrementalSearch(kws, cachedResults, caseSensitive, wholeWord) ==
    FilterResults(cachedResults, kws, caseSensitive, wholeWord)

\* A cache write that keeps the results it held before.
updateSearchCacheMerging(searchCache, kws, results, now) ==
    [keywords |-> kws, results |-> searchCache.results \o results, timestamp |-> now]

\* updateSearchCache.
updateSearchCache(searchCache, kws, results, now) ==
    [keywords |-> kws, results |-> results, timestamp |-> now]

\* handleSearchCompleted: the panel is idle again and the cache is written.
\* The record of the completion keeps what the cache held when the query
\* was taken up.
handleSearchCompleted(v, how, kws, results, before) ==
    [v EXCEPT !.isSearching = FALSE,
              !.searchCache = updateSearchCache(v.searchCache, kws, results, v.now),
              !.last = <<[how |-> how, keywords |-> kws, results |-> results,
                          at |-> v.now, before |-> before]>>]

\* A file that holds the first letter only.
OnlyAFile == FileOf(<<"a">>, <<<<"a">>>>, SmallSize, TRUE, FALSE)

\* A file that holds the second letter only.
OnlyBFile == FileOf(<<"b">>, <<<<"b">>>>, SmallSize, TRUE, FALSE)

\* The workspaces of the panel sessions: one with a file of both letters
\* and a file of the first letter whose path has the second, one with a
\* single file without the first letter.
CacheWorkspaces ==
    { [p \in SmallPaths |-> IF p = PathOf(2) THEN OnlyAFile ELSE PlainFile],
      [p \in {PathOf(2)} |-> OnlyBFile] }

\* What the input box holds when the button is pressed, split on white
\* space.
TypedKeywordLists ==
    { <<>>, <<<<"a">>>>, <<<<"a">>, <<"b">>>>, <<<<"a">>, <<"a">>, <<"b">>>> }

\* The list searchKeywordsIntersection returns for kws from the scan path
\* when it is not cancelled.
SearchAnswer(kws) ==
    ScanReturnValue(BatchResults(Ascending({p \in DOMAIN files : ~files[p].ignored}),
                                 kws, config))

Message(command, kws, results) ==
    [command |-> command, keywords |-> kws, results |-> results]

\* The 'search' messages posted whose searchCompleted or searchError the
\* script has not handled yet.
InFlight(v) ==
    Len(v.toExt) + Len(v.running)
    + Cardinality({i \in 1..Len(v.toView) : v.toView[i].command # "searchStarted"})

\* handleSearch of the script: it returns at once for a blank input and
\* while a search is shown as running, which leaves every variable as it
\* is; else the answer comes from the cache, or a 'search' message is
\* posted.  limit bounds the 'search' messages posted and not yet answered
\* in the sessions explored.
HandleSearchWithin(limit) ==
    /\ view.queries < MaxQueries
    /\ ~view.isSearching
    /\ \E kws \in TypedKeywordLists \ {<<>>} :
       \E cacheResult \in {checkSearchCache(view.searchCache, kws, view.now)} :
         LET counted == [view EXCEPT !.queries = view.queries + 1]
             decision(how) == <<[keywords |-> kws, how |-> how,
                                 cache |-> view.searchCache, at |-> view.now,
                                 flags |-> CheckBoxes(view)]>>
         IN IF cacheResult.canUseCache
            THEN \E filteredResults \in
                      {handleIncrementalSearch(kws, cacheResult.cachedResults,
                                               CheckBoxes(view).caseSensitive,
                                               CheckBoxes(view).wholeWord)} :
                   view' = handleSearchCompleted(
                               [counted EXCEPT
                                  !.asked = decision("cache"),
                                  !.searchCache =
                                      updateSearchCache(view.searchCache, kws,
                                                        filteredResults, view.now)],
                               "refined", kws, filteredResults, view.searchCache)
            ELSE /\ InFlight(view) < limit
                 /\ view' = [counted EXCEPT !.asked = decision("full"),
                                            !.toExt = Append(view.toExt, kws)]
    /\ UNCHANGED <<envVars, config, queryVars, msgs, idx>>

HandleSearch == HandleSearchWithin(MaxInFlight)

\* _handleSearch that drops what searchKeywordsIntersection throws.
ExtStartSearchSwallowing ==
    /\ view.toExt # <<>>
    /\ LET kws == Head(view.toExt)
           started == Append(view.toView, Message("searchStarted", kws, <<>>))
       IN view' = IF Len(kws) = 0
                  THEN [view EXCEPT !.toExt = Tail(view.toExt),
                                    !.toView = Append(view.toView,
                                                      Message("searchError", kws, <<>>))]
                  ELSE IF WorkspaceMissing
                  THEN [view EXCEPT !.toExt = Tail(view.toExt),
                                    !.toView = started]
                  ELSE [view EXCEPT !.toExt = Tail(view.toExt),
                                    !.toView = started,
                                    !.running = Append(view.running, kws)]
    /\ UNCHANGED <<envVars, config, queryVars, msgs, idx>>

\* _handleSearch receives a 'search' message: it posts searchStarted and
\* calls searchKeywordsIntersection, which throws at once without a
\* workspace folder.
ExtStartSearch ==
    /\ view.toExt # <<>>
    /\ LET kws == Head(view.toExt)
           started == Append(view.toView, Message("searchStarted", kws, <<>>))
       IN view' = IF Len(kws) = 0
                  THEN [view EXCEPT !.toExt = Tail(view.toExt),
                                    !.toView = Append(view.toView,
                                                      Message("searchError", kws, <<>>))]
                  ELSE IF WorkspaceMissing
                  THEN [view EXCEPT !.toExt = Tail(view.toExt),
                                    !.toView = Append(started,
                                                      Message("searchError", kws, <<>>))]
                  ELSE [view EXCEPT !.toExt = Tail(view.toExt),
                                    !.toView = started,
                                    !.running = Append(view.running, kws)]
    /\ UNCHANGED <<envVars, config, queryVars, msgs, idx>>

\* A searchKeywordsIntersection under way returns: _handleSearch posts
\* searchCompleted with the keywords and the results.
ExtFinishSearch ==
    /\ \E i \in 1..Len(view.running) : \E results \in {SearchAnswer(view.running[i])} :
         view' = [view EXCEPT
                    !.running = SubSeq(view.running, 1, i - 1)
                                \o SubSeq(view.running, i + 1, Len(view.running)),
                    !.toView = Append(view.toView,
                                      Message("searchCompleted", view.running[i], results))]
    /\ UNCHANGED <<envVars, config, queryVars, msgs, idx>>

\* The message listener of the script handles the next message.
ViewReceive ==
    /\ view.toView # <<>>
    /\ LET message == Head(view.toView)
           taken == [view EXCEPT !.toView = Tail(view.toView)]
       IN view' = IF message.command = "searchStarted"
                  THEN [taken EXCEPT !.isSearching = TRUE]
                  ELSE IF message.command = "searchCompleted"
                  THEN handleSearchCompleted(taken, "full", message.keywords, message.results,
                                             view.searchCache)
                  ELSE [taken EXCEPT !.isSearching = FALSE]
    /\ UNCHANGED <<envVars, config, queryVars, msgs, idx>>

\* clearResults: the results shown and the cache are dropped.
ClearResults ==
    /\ view.searchCache # EmptyCache
    /\ view' = [view EXCEPT !.searchCache = EmptyCache, !.last = <<>>]
    /\ UNCHANGED <<envVars, config, queryVars, msgs, idx>>

\* Time passes between two events of the panel.  The script reads the clock
\* only to stamp the cache and to compute its age, so only the time that
\* passes while the cache is filled is told apart.
Elapse ==
    /\ view.elapses < MaxElapses
    /\ view.searchCache # EmptyCache
    /\ \E d \in {CacheTTL, CacheTTL + 1} :
         view' = [view EXCEPT !.now = view.now + d, !.elapses = view.elapses + 1]
    /\ UNCHANGED <<envVars, config, queryVars, msgs, idx>>

InitCache ==
    /\ files \in CacheWorkspaces
    /\ workspaceOpen \in BOOLEAN
    /\ config \in [caseSensitive : {FALSE}, wholeWord : BOOLEAN,
                   maxFileSize : {DefaultMaxFileSizeKB}]
    /\ Cardinality(DOMAIN files) = 1 \/ workspaceOpen
    /\ Cardinality(DOMAIN files) > 1 \/ ~config.wholeWord
    /\ cpuCount = 1
    /\ keywords = <<>>
    /\ entry = "webview"
    /\ ProcessInit

NextCache ==
    \/ HandleSearch
    \/ ExtStartSearch
    \/ ExtFinishSearch
    \/ ViewReceive
    \/ ClearResults
    \/ Elapse

SpecCache == InitCache /\ [][NextCache]_vars

\* The most changes of a check box in a session of the panel.
MaxToggles == 2

\* A change of a check box that also empties the result cache.
ToggleBoxClearingCache(v, box) ==
    LET flipped == [CheckBoxes(v) EXCEPT ![box] = ~CheckBoxes(v)[box]]
    IN [v EXCEPT !.boxes = <<flipped>>,
                 !.searchCache = EmptyCache,
                 !.toConfig = Append(v.toConfig, [box |-> box, checked |-> flipped[box]]),
                 !.toggles = v.toggles + 1]

\* The 'change' listener of a check box: the box has flipped and an
\* updateConfig message with its new value is posted.
ToggleBox(v, box) ==
    LET flipped == [CheckBoxes(v) EXCEPT ![box] = ~CheckBoxes(v)[box]]
    IN [v EXCEPT !.boxes = <<flipped>>,
                 !.toConfig = Append(v.toConfig, [box |-> box, checked |-> flipped[box]]),
                 !.toggles = v.toggles + 1]

\* The user changes the case-sensitive or the whole-word check box.
ToggleOption ==
    /\ view.toggles < MaxToggles
    /\ \E box \in {"caseSensitive", "wholeWord"} : view' = ToggleBox(view, box)
    /\ UNCHANGED <<envVars, config, queryVars, msgs, idx>>

\* _handleUpdateConfig receives an updateConfig message: caseSensitive is
\* written to the configuration, wholeWord is not among the keys it
\* writes.  The configUpdated message it posts changes nothing in the
\* script when the update succeeds.
ExtUpdateConfig ==
    /\ view.toConfig # <<>>
    /\ LET message == Head(view.toConfig)
       IN config' = IF message.box = "caseSensitive"
                    THEN [config EXCEPT !.caseSensitive = message.checked]
                    ELSE config
    /\ view' = [view EXCEPT !.toConfig = Tail(view.toConfig)]
    /\ UNCHANGED <<envVars, queryVars, msgs, idx>>

\* A workspace of one file whose path and content have no small a.
FlagWorkspaces ==
    { [p \in {PathOf(13)} |-> UpperFile] }

InitFlags ==
    /\ files \in FlagWorkspaces
    /\ workspaceOpen = TRUE
    /\ config = [caseSensitive |-> FALSE, wholeWord |-> FALSE,
                 maxFileSize |-> DefaultMaxFileSizeKB]
    /\ cpuCount = 1
    /\ keywords = <<>>
    /\ entry = "webview"
    /\ ProcessInit

NextFlags ==
    \/ HandleSearch
    \/ ExtStartSearch
    \/ ExtFinishSearch
    \/ ViewReceive
    \/ Elapse
    \/ ToggleOption
    \/ ExtUpdateConfig

\* Sessions of the panel in which the check boxes change.
SpecFlags == InitFlags /\ [][NextFlags]_vars

\* The most 'search' messages posted and not yet answered in the sessions
\* in which the user presses the button again before searchStarted arrives.
MaxRacing == 2

\* handleSearch in those sessions.
HandleSearchRacing == HandleSearchWithin(MaxRacing)

NextRace ==
    \/ HandleSearchRacing
    \/ ExtStartSearch
    \/ ExtFinishSearch
    \/ ViewReceive

\* Sessions of the panel for any timing of the user's input relative to
\* the messages of the extension.
SpecRace == InitCache /\ [][NextRace]_vars

\* The same sessions when the extension host handles every message posted
\* to it, every searchKeywordsIntersection call returns or throws, and the
\* script handles every message posted to it.
SpecRaceLive ==
    /\ SpecRace
    /\ \/ []<>(view.toExt = <<>>)
       \/ []<><<ExtStartSearch>>_vars
    /\ \/ []<>(view.running = <<>>)
       \/ []<><<ExtFinishSearch>>_vars
    /\ \/ []<>(view.toView = <<>>)
       \/ []<><<ViewReceive>>_vars

(***************************************************************************)
(* The subprocess of searchWithRipgrep                                     *)
(*                                                                         *)
(* One child for each keyword.  Its stdout handler appends every chunk to  *)
(* output; its error handler rejects; its exit handler resolves with the   *)
(* lines of output on status 0, with no file on status 1 and rejects on    *)
(* any other; a 30000 ms timer that nothing clears kills the child and     *)
(* rejects.  The 'exit' event is emitted when the process ends, the stdio  *)
(* streams may still hold data then: a 'data' event can follow it.         *)
(***************************************************************************)

\* What the utility writes for a listing: one path a line.
RgStdout(listed) == Flatten([i \in 1..Len(listed) |-> Append(listed[i], "\n")])

\* output.split('\n').filter(line => line.trim().length > 0)
\*       .map(line => line.trim()).
RgOutputFiles(output) ==
    FilterNonEmpty([i \in 1..Len(SplitLines(output)) |-> Trim(SplitLines(output)[i])])

\* The runs of the utility for keyword k: it lists the matching files and
\* ends with status 0, finds none and ends with status 1, or fails with
\* status 2.
RgRuns(k) ==
    {[stdout |-> RgStdout(listed), code |-> IF listed = <<>> THEN 1 ELSE 0] :
        listed \in ListingOrders({p \in DOMAIN files :
                      RgFileMatches(files[p], keywords[k], ~config.caseSensitive)})}
    \cup {[stdout |-> <<>>, code |-> 2]}

\* spawn(ripgrepPath, args) in searchWithRipgrep with its handlers and its
\* timer; pending is what the child writes and no 'data' event delivered
\* yet.
RgSpawn(rgRec, run) ==
    [rgRec EXCEPT
        !.children = Append(@, [pending |-> run.stdout, code |-> run.code,
                                output |-> <<>>, error |-> FALSE, exit |-> FALSE,
                                killed |-> FALSE, settled |-> <<>>, how |-> "none"]),
        !.timers = Append(@, Len(rgRec.children) + 1)]

\* resolve or reject on the promise of a child: the first call settles it.
RgSettle(child, how, listed) ==
    IF child.settled # <<>> THEN child
    ELSE [child EXCEPT !.settled = <<searchWithRipgrep(how, listed)>>, !.how = how]

\* A 'data' event of the stdout of child c: the next n characters.
RgChildData(c) ==
    /\ c \in DOMAIN rg.children
    /\ rg.children[c].pending # <<>>
    /\ \E n \in 1..Len(rg.children[c].pending) :
         rg' = [rg EXCEPT
                  !.children[c].output = @ \o SubSeq(rg.children[c].pending, 1, n),
                  !.children[c].pending = SubSeq(@, n + 1, Len(@))]
    /\ UNCHANGED <<envVars, config, pc, cancelled, spawnedAny, enumeratedAny, scan,
                   out, msgs, reports, idx, view>>

\* The 'error' event of child c.
RgChildError(c) ==
    /\ c \in DOMAIN rg.children
    /\ ~rg.children[c].error
    /\ rg' = [rg EXCEPT !.children[c] =
                 RgSettle([@ EXCEPT !.error = TRUE], "error", <<>>)]
    /\ UNCHANGED <<envVars, config, pc, cancelled, spawnedAny, enumeratedAny, scan,
                   out, msgs, reports, idx, view>>

\* The 'exit' event of child c; a killed child has code null.
RgChildExit(c) ==
    /\ c \in DOMAIN rg.children
    /\ ~rg.children[c].exit
    /\ LET child == rg.children[c]
           code == IF child.killed THEN -1 ELSE child.code
       IN rg' = [rg EXCEPT !.children[c] =
                    RgSettle([@ EXCEPT !.exit = TRUE],
                             IF code \in {0, 1} THEN "exit" ELSE "badexit",
                             IF code = 0 THEN RgOutputFiles(child.output) ELSE <<>>)]
    /\ UNCHANGED <<envVars, config, pc, cancelled, spawnedAny, enumeratedAny, scan,
                   out, msgs, reports, idx, view>>

\* The oldest timer fires: it kills its child and rejects.
RgChildTimeout ==
    /\ rg.timers # <<>>
    /\ rg' = [rg EXCEPT !.children[Head(rg.timers)] =
                 RgSettle([@ EXCEPT !.killed = TRUE], "timeout", <<>>),
                        !.timers = Tail(@)]
    /\ UNCHANGED <<envVars, config, pc, cancelled, spawnedAny, enumeratedAny, scan,
                   out, msgs, reports, idx, view>>

\* tryRipgrepSearch resumes with the settled promise of the last child and
\* runs to its next await: the child of the next keyword, the first
\* detailed result, the file enumeration of the fallback, or the end.
RgResumes ==
    /\ pc = "rg"
    /\ rg.children # <<>>
    /\ rg.children[Len(rg.children)].settled # <<>>
    /\ UNCHANGED <<envVars, config, cancelled, idx, view>>
    /\ \E step \in {AfterRipgrep(rg.children[Len(rg.children)].settled[1],
                                  rg.children[Len(rg.children)].how)} :
       \E kept \in {[step.rg EXCEPT !.children = rg.children, !.timers = rg.timers]} :
         IF step.pc = "rg"
         THEN \E run \in RgRuns(kept.kwIndex) :
                 Apply([step EXCEPT !.rg = RgSpawn(kept, run)])
         ELSE Apply([step EXCEPT !.rg = kept])

\* A command query at its first `await searchWithRipgrep(...)`, as
\* StartQuery and ProbeDone leave it, the child of the first keyword
\* spawned.
InitRg ==
    /\ files \in CacheWorkspaces
    /\ workspaceOpen = TRUE
    /\ config = [caseSensitive |-> FALSE, wholeWord |-> FALSE,
                 maxFileSize |-> DefaultMaxFileSizeKB]
    /\ cpuCount = 1
    /\ keywords = <<<<"a">>, <<"b">>>>
    /\ entry = "command"
    /\ pc = "rg"
    /\ cancelled = FALSE
    /\ spawnedAny = TRUE
    /\ enumeratedAny = FALSE
    /\ \E run \in RgRuns(1) : rg = RgSpawn([RgInit EXCEPT !.kwIndex = 1], run)
    /\ scan = ScanInit
    /\ out = OutInit
    /\ msgs = <<>>
    /\ reports = <<<<0, 1>>, <<5, 1>>, <<70, Len(keywords)>>>>
    /\ idx = IdxInit
    /\ view = ViewInit

NextRg ==
    \/ \E c \in DOMAIN rg.children : RgChildData(c)
    \/ \E c \in DOMAIN rg.children : RgChildError(c)
    \/ \E c \in DOMAIN rg.children : RgChildExit(c)
    \/ RgChildTimeout
    \/ RgResumes
    \/ DetailDone

SpecRg == InitRg /\ [][NextRg]_vars

(***************************************************************************)
(* From the typed text to the keyword list                                 *)
(***************************************************************************)

RECURSIVE TextsOver(_, _)
\* The texts of at most n characters of chars.
TextsOver(chars, n) ==
    IF n = 0 THEN {<<>>}
    ELSE LET shorter == TextsOver(chars, n - 1)
         IN shorter \cup {Append(t, c) : t \in shorter, c \in chars}

\* What the keyword box of the panel, or the input box of the command,
\* holds when it is submitted.
RawInputs == TextsOver({"a", " ", "\n"}, MaxInputLen)

\* validateInput of the input box of the command: the box is accepted only
\* with a text that is not blank and has two pieces or more.
validateInput(value) ==
    /\ Trim(value) # <<>>
    /\ Len(SplitWhitespace(Trim(value))) >= 2

\* The typed text is submitted.  handleSearch of the script shows an error
\* for a blank text and else posts the parsed list in a 'search' message;
\* the command leaves without a query when the input box was not accepted
\* or the parsed list has fewer than two keywords.
SubmitInput ==
    /\ pc = "idle"
    /\ view.input # <<>>
    /\ ~view.submitted
    /\ LET raw == view.input[1]
           refused == IF entry = "webview" THEN Trim(raw) = <<>>
                      ELSE ~validateInput(raw) \/ Len(SplitKeywords(raw)) < 2
       IN IF refused
          THEN /\ pc' = "done"
               /\ out' = [out EXCEPT !.outcome = "rejected"]
               /\ UNCHANGED keywords
          ELSE /\ keywords' = SplitKeywords(raw)
               /\ UNCHANGED <<pc, out>>
    /\ view' = [view EXCEPT !.submitted = TRUE]
    /\ UNCHANGED <<files, workspaceOpen, cpuCount, entry, config, cancelled, idx, msgs,
                   spawnedAny, enumeratedAny, rg, scan, reports>>

InitEntry ==
    /\ files = [p \in {PathOf(2)} |-> OnlyAFile]
    /\ workspaceOpen \in BOOLEAN
    /\ config = [caseSensitive |-> FALSE, wholeWord |-> FALSE,
                 maxFileSize |-> DefaultMaxFileSizeKB]
    /\ cpuCount = 1
    /\ keywords = <<>>
    /\ entry \in {"webview", "command"}
    /\ pc = "idle"
    /\ cancelled = FALSE
    /\ spawnedAny = FALSE
    /\ enumeratedAny = FALSE
    /\ rg = RgInit
    /\ scan = ScanInit
    /\ out = OutInit
    /\ msgs = <<>>
    /\ reports = <<>>
    /\ idx = IdxInit
    /\ view \in {[ViewInit EXCEPT !.input = <<raw>>] : raw \in RawInputs}

\* The entry points up to the first await of searchKeywordsIntersection.
NextEntry ==
    \/ SubmitInput
    \/ StartQuery

SpecEntry == InitEntry /\ [][NextEntry]_vars

(***************************************************************************)
(* The pre-check of a large file                                           *)
(*                                                                         *)
(* containsAllKeywords on one file above the 100KB threshold, for every    *)
(* content of a few characters, every way the read stream can cut it into  *)
(* chunks and every keyword list below.                                    *)
(***************************************************************************)

\* The longest content and the most chunks of a stream.
MaxStreamLen == 6
MaxChunks == 3

\* The ways a read stream delivers content: chunks that are not empty and
\* join to the content; an empty file has no 'data' event.
StreamChunkings(content) ==
    IF content = <<>> THEN {<<>>}
    ELSE {[i \in 1..(Len(b) - 1) |-> SubSeq(content, b[i] + 1, b[i + 1])] :
            b \in {s \in UNION {[1..n -> 0..Len(content)] : n \in 2..(MaxChunks + 1)} :
                     /\ s[1] = 0
                     /\ s[Len(s)] = Len(content)
                     /\ \A i \in 1..(Len(s) - 1) : s[i] < s[i + 1]}}

\* Keyword lists for the pre-check: one keyword of two letters, two
\* keywords, two that overlap, two that differ in case only, one twice,
\* one, none.
StreamKeywordLists ==
    { <<<<"a", "b">>>>,
      <<<<"a">>, <<"b">>>>,
      <<<<"b", "a">>, <<"a", "b">>>>,
      <<<<"A">>, <<"a">>>>,
      <<<<"a">>, <<"a">>>>,
      <<<<"A">>>>,
      <<>> }

\* containsKeywordsStream alone on the file.
PreCheck ==
    /\ pc = "idle"
    /\ pc' = "done"
    /\ out' = [outcome |-> "returned", usedPath |-> "stream",
               returned |-> <<containsKeywordsStream(files[PathOf(1)], keywords,
                                                     config.caseSensitive)>>]
    /\ UNCHANGED <<envVars, config, cancelled, spawnedAny, enumeratedAny, rg, scan,
                   msgs, reports, idx, view>>

\* containsAllKeywords on the file.
MatchFile ==
    /\ pc = "idle"
    /\ pc' = "done"
    /\ out' = [outcome |-> "returned", usedPath |-> "file",
               returned |-> containsAllKeywords(PathOf(1), files[PathOf(1)], keywords,
                                                config.caseSensitive, config.wholeWord,
                                                config.maxFileSize)]
    /\ UNCHANGED <<envVars, config, cancelled, spawnedAny, enumeratedAny, rg, scan,
                   msgs, reports, idx, view>>

InitStream ==
    /\ \E content \in TextsOver({"a", "A", "b"}, MaxStreamLen) :
         \E chunks \in StreamChunkings(content) :
            files = [p \in {PathOf(1)} |-> FileOf(content, chunks, LargeSize, TRUE, FALSE)]
    /\ workspaceOpen = TRUE
    /\ config \in [caseSensitive : BOOLEAN, wholeWord : {FALSE},
                    maxFileSize : {DefaultMaxFileSizeKB}]
    /\ cpuCount = 1
    /\ keywords \in StreamKeywordLists
    /\ entry = "command"
    /\ ProcessInit

NextStream == PreCheck \/ MatchFile

SpecStream == InitStream /\ [][NextStream]_vars

(***************************************************************************)
(* The match positions of one file                                         *)
(*                                                                         *)
(* containsAllKeywords on one small file, and buildSearchIndex followed by *)
(* searchWithIndex on it, for every content of a few characters and lines. *)
(***************************************************************************)

\* The longest content of the file.
MaxMatchLen == 5

\* One keyword of two letters, the same in upper case, two keywords, one
\* keyword twice, two words of two letters.
MatchKeywordLists ==
    { <<<<"a", "b">>>>,
      <<<<"A", "b">>>>,
      <<<<"a">>, <<"b">>>>,
      <<<<"b">>, <<"b">>>>,
      <<<<"a", "b">>, <<"b", "a">>>> }

InitMatch ==
    /\ \E content \in TextsOver({"a", "A", "b", "\n"}, MaxMatchLen) :
         files = [p \in {PathOf(1)} |-> FileOf(content, <<content>>, SmallSize, TRUE, FALSE)]
    /\ workspaceOpen = TRUE
    /\ config \in [caseSensitive : BOOLEAN, wholeWord : BOOLEAN,
                    maxFileSize : {DefaultMaxFileSizeKB}]
    /\ cpuCount = 1
    /\ keywords \in MatchKeywordLists
    /\ entry = "command"
    /\ ProcessInit

NextMatch ==
    \/ MatchFile
    \/ BuildSearchIndex
    \/ SearchWithIndex

SpecMatch == InitMatch /\ [][NextMatch]_vars

(***************************************************************************)
(* The preview of one file                                                 *)
(*                                                                         *)
(* containsAllKeywords on a file of up to MaxPreviewLines lines: the lines *)
(* of a run at a fixed distance hold the first keyword, one line holds the *)
(* second, the other lines are empty.                                      *)
(***************************************************************************)

\* The most lines of the file, and the most lines of the run.
MaxPreviewLines == 36
MaxRunLines == 6

\* The file of n lines whose lines first, first + gap, ... (count of them,
\* as far as the file goes) hold "a" and whose line other holds "b".
PreviewFile(n, first, gap, count, other) ==
    LET run == {first + (k * gap) : k \in 0..(count - 1)}
        lineAt(i) == (IF i \in run THEN <<"a">> ELSE <<>>)
                     \o (IF i = other THEN <<"b">> ELSE <<>>)
        Text[i \in 0..n] ==
            IF i = 0 THEN <<>>
            ELSE IF i = 1 THEN lineAt(1)
            ELSE Text[i - 1] \o <<"\n">> \o lineAt(i)
    IN FileOf(Text[n], <<Text[n]>>, SmallSize, TRUE, FALSE)

InitPreview ==
    /\ \E n \in 1..MaxPreviewLines : \E first \in {1, 3} : \E gap \in {1, 5, 6, 7} :
       \E count \in {1, 2, MaxRunLines} : \E other \in {1, first + 1, n} :
         files = [p \in {PathOf(1)} |-> PreviewFile(n, first, gap, count, other)]
    /\ workspaceOpen = TRUE
    /\ config \in [caseSensitive : BOOLEAN, wholeWord : {FALSE},
                    maxFileSize : {DefaultMaxFileSizeKB}]
    /\ cpuCount = 1
    /\ keywords \in {<<<<"a">>, <<"b">>>>, <<<<"a">>>>}
    /\ entry = "command"
    /\ ProcessInit

SpecPreview == InitPreview /\ [][MatchFile]_vars

(***************************************************************************)
(* Properties                                                              *)
(***************************************************************************)

\* Brute-force reference: kw occurs in content at i, compared character by
\* character, folding case unless caseSensitive.
RefOccursAt(content, kw, caseSensitive, i) ==
    /\ i + Len(kw) - 1 <= Len(content)
    /\ \A j \in 1..Len(kw) :
         IF caseSensitive THEN content[i + j - 1] = kw[j]
         ELSE LowerChar(content[i + j - 1]) = LowerChar(kw[j])

\* Brute-force reference: content contains kw; in whole-word mode neither
\* neighbour of the occurrence is a word character.
RefContains(content, kw, caseSensitive, wholeWord) ==
    \E i \in 1..Len(content) :
        /\ RefOccursAt(content, kw, caseSensitive, i)
        /\ wholeWord =>
             /\ i = 1 \/ ~IsWordChar(content[i - 1])
             /\ i + Len(kw) > Len(content) \/ ~IsWordChar(content[i + Len(kw)])

RefContainsAll(p) ==
    \A k \in 1..Len(keywords) :
        RefContains(files[p].content, keywords[k], config.caseSensitive, config.wholeWord)

\* The keyword begins and ends with a word character.
WordEdged(kw) == IsWordChar(kw[1]) /\ IsWordChar(kw[Len(kw)])

\* The file is a candidate that can be read and is within the size ceiling.
Searchable(p) ==
    /\ ~files[p].ignored
    /\ files[p].readable
    /\ files[p].size <= config.maxFileSize * 1024

Candidates == {p \in DOMAIN files : ~files[p].ignored}

PathsOf(resultSeq) == {resultSeq[i].relativePath : i \in 1..Len(resultSeq)}

QueryReturned == pc = "done" /\ out.outcome = "returned"

\* What the scan path returns for the workspace when it runs to the end.
ScanResult == ScanReturnValue(BatchResults(Ascending(Candidates), keywords, config))

\* The files of a result list with the number of matches of each keyword.
MatchCounts(resultSeq) ==
    {[relativePath |-> resultSeq[i].relativePath,
      counts |-> [k \in 1..Len(resultSeq[i].matches) |->
                    <<resultSeq[i].matches[k].keyword,
                      Len(resultSeq[i].matches[k].positions)>>]] :
        i \in 1..Len(resultSeq)}

\* C1: a completed, uncancelled scan returns a searchable file if and only
\* if the file contains every keyword under the configured case and
\* whole-word semantics (keywords that begin and end with a word character).
C1_ScanResultIsIntersection ==
    (/\ QueryReturned
     /\ out.usedPath = "scan"
     /\ ~cancelled
     /\ \A k \in 1..Len(keywords) : WordEdged(keywords[k]))
    => \A p \in DOMAIN files :
          Searchable(p) => (p \in PathsOf(out.returned) <=> RefContainsAll(p))

\* C2: every list searchKeywordsIntersection returns, from the fast path or
\* from the scan, is sorted by relativePath ascending.
C2_ReturnedSorted ==
    QueryReturned =>
        \A i \in 1..(Len(out.returned) - 1) :
            LocaleCompare(out.returned[i].relativePath,
                          out.returned[i + 1].relativePath) <= 0

\* C3: an uncancelled query answered by the fast path returns the files and
\* the per-keyword matches the scan returns for the same workspace.
C3_FastPathEqualsScan ==
    (QueryReturned /\ out.usedPath = "fast" /\ ~cancelled)
    => SeqToSet(out.returned) = SeqToSet(ScanResult)

\* C4: searchWithIndex on an index built from the present files under the
\* present configuration returns the paths and the per-keyword match counts
\* of the scan.
C4_IndexEqualsScan ==
    (idx.outcome = "returned" /\ idx.builtWith = config.maxFileSize /\ Len(keywords) >= 1)
    => MatchCounts(idx.returned) = MatchCounts(ScanResult)

\* An uncancelled query answered by the scan path returns ScanResult.
ScanPathReturnsScanResult ==
    (QueryReturned /\ out.usedPath = "scan" /\ ~cancelled /\ enumeratedAny)
    => out.returned = ScanResult

QueryDone == pc = "done"

\* The results accumulated by the path the query ended on.
Accumulated == IF out.usedPath = "fast" THEN rg.results ELSE scan.results

\* The files of the batches the workers have taken from the queue.
TakenFiles == Flatten(scan.taken)

CountOf(seq, m) == Cardinality({i \in 1..Len(seq) : seq[i] = m})

\* C5 as stated: a query that ends after cancellation was requested returns
\* normally with the results accumulated so far, on the fast path and on
\* the scan path alike.
C5_CancelledReturnsAccumulated ==
    (QueryDone /\ cancelled)
    => /\ out.outcome = "returned"
       /\ SeqToSet(out.returned) = SeqToSet(Accumulated)

\* C5 amended: a query that ends after cancellation was requested returns
\* normally; on the scan path it returns the results of every batch taken
\* from the queue before the signal was observed; on the fast path it
\* returns the empty list when it observes the signal, and the complete
\* fast-path result when it ends without observing it.
C5_CancelledReturnsScanPartial ==
    (QueryDone /\ cancelled)
    => /\ out.outcome = "returned"
       /\ out.usedPath = "scan" =>
            /\ SeqToSet(out.returned) = SeqToSet(scan.results)
            /\ Len(out.returned) = Len(scan.results)
            /\ SeqToSet(scan.results) =
                 SeqToSet(BatchResults(TakenFiles, keywords, config))
       /\ out.usedPath = "fast" =>
            \/ out.returned = <<>>
            \/ /\ out.returned = rg.results
               /\ rg.detailIndex = Len(rg.intersectionFiles)

\* C5 witness: a cancelled scan ended with files left in the queue and
\* returned the results of the batches it had taken.
C5_Witness ==
    /\ QueryDone
    /\ cancelled
    /\ out.usedPath = "scan"
    /\ Len(scan.workQueue) > 0
    /\ Len(out.returned) > 0

\* C6: at every point of a scan the number of accumulated results is at
\* most the number of files counted as processed, which is at most the
\* number of candidate files; a scan that has returned, cancelled or not,
\* returned no more results than files processed.
C6_ResultsWithinProcessed ==
    /\ Len(scan.results) <= scan.processedFiles
    /\ scan.processedFiles <= scan.totalFiles
    /\ (QueryDone /\ out.usedPath = "scan") => Len(out.returned) <= scan.processedFiles

\* C6 witness: a cancelled scan returned results with only part of the
\* candidate files processed.
C6_Witness ==
    /\ QueryDone
    /\ cancelled
    /\ out.usedPath = "scan"
    /\ 0 < scan.processedFiles
    /\ scan.processedFiles < scan.totalFiles
    /\ Len(out.returned) >= 2

\* C7: a file that cannot be read counts as no match for that file only:
\* an uncancelled scan returns without raising, has processed every
\* candidate file, and returns exactly the readable candidates that hold
\* every keyword.
C7_FileFailureIsLocal ==
    (QueryDone /\ out.usedPath = "scan" /\ ~cancelled /\ scan.totalFiles > 0)
    => /\ out.outcome = "returned"
       /\ scan.processedFiles = scan.totalFiles
       /\ SeqToSet(TakenFiles) = Candidates
       /\ PathsOf(out.returned) = {p \in Candidates : Searchable(p) /\ RefContainsAll(p)}

\* C7 witness: an uncancelled scan returned a file that shared its batch
\* with a file that could not be read.
C7_Witness ==
    /\ QueryDone
    /\ out.usedPath = "scan"
    /\ ~cancelled
    /\ \E b \in 1..Len(scan.taken) :
         /\ \E i \in 1..Len(scan.taken[b]) : ~files[scan.taken[b][i]].readable
         /\ \E i \in 1..Len(scan.taken[b]) : scan.taken[b][i] \in PathsOf(out.returned)

\* C8: with no workspace folder open, no subprocess is spawned and no file
\* is enumerated; a query with an acceptable keyword list ends by throwing,
\* and the webview is posted exactly one searchError and no
\* searchCompleted.
C8_NoWorkspaceIsFatal ==
    ~workspaceOpen
    => /\ ~spawnedAny
       /\ ~enumeratedAny
       /\ (QueryDone /\ out.outcome # "rejected") => out.outcome = "threw"
       /\ (QueryDone /\ entry = "webview") =>
            /\ CountOf(msgs, "searchError") = 1
            /\ CountOf(msgs, "searchCompleted") = 0

\* C8 witness: a webview query with keywords ended by throwing because no
\* workspace folder is open.
C8_Witness ==
    /\ ~workspaceOpen
    /\ entry = "webview"
    /\ Len(keywords) > 0
    /\ QueryDone
    /\ out.outcome = "threw"
    /\ msgs = <<"searchStarted", "searchError">>

\* Some subprocess of the query failed to spawn, exited with a status other
\* than 0 or 1, or timed out.
SubprocessFailed == \E i \in 1..Len(rg.settled) : rg.settled[i] # "exit"

\* C9: once the subprocess of any keyword has failed, the query never
\* returns a fast-path result and never throws; when it ends it has been
\* answered by the scan path, with the scan's result if it was not
\* cancelled.
C9_SubprocessFailureFallsBack ==
    SubprocessFailed
    => /\ out.usedPath # "fast"
       /\ out.outcome # "threw"
       /\ rg.keywordResults = <<>> /\ rg.results = <<>>
       /\ QueryDone =>
            /\ out.usedPath = "scan"
            /\ out.outcome = "returned"
            /\ ~cancelled => out.returned = ScanResult

\* C9 witness: the subprocess of the second keyword failed after the first
\* had succeeded, and the scan path answered with a matching file.
C9_Witness ==
    /\ Len(rg.settled) = 2
    /\ rg.settled[1] = "exit"
    /\ rg.settled[2] # "exit"
    /\ QueryDone
    /\ out.usedPath = "scan"
    /\ Len(out.returned) > 0

\* C10: a file larger than the configured ceiling is in no result, be it
\* returned by the scan, the fast path or the index search.
C10_OversizeNeverReturned ==
    \A p \in DOMAIN files :
        files[p].size > config.maxFileSize * 1024
        => /\ p \notin PathsOf(out.returned)
           /\ p \notin PathsOf(idx.returned)

\* No index can be loaded: there is no index path or no document.
NoLoadableIndex == ~workspaceOpen \/ idx.disk = <<>>

\* The paths of the entries of the stored document.
StoredPaths == DOMAIN idx.disk[1].files

IndexCandidates ==
    CandidatesFrom(idx.index[1],
                   IF config.caseSensitive THEN keywords
                   ELSE [k \in 1..Len(keywords) |-> ToLowerCase(keywords[k])],
                   1, <<>>)

\* The file of index entry p is on disk with the mtime the entry records.
Unmodified(p) ==
    /\ p \in DOMAIN files
    /\ files[p].mtime = idx.index[1].files[p].lastModified

\* C12: searchWithIndex returns no file that is gone or whose mtime differs
\* from the mtime of its index entry, and returns every other candidate
\* whose indexed lines hold all the keywords.
C12_ModifiedFilesSkipped ==
    idx.outcome = "returned"
    => PathsOf(idx.returned) =
         {p \in IndexCandidates :
            /\ Unmodified(p)
            /\ findKeywordMatches(idx.index[1].files[p], keywords,
                                  config.caseSensitive) # <<>>}

\* C12 witness: an index search skipped a candidate that was written or
\* removed after the build and returned another one.
C12_Witness ==
    /\ idx.outcome = "returned"
    /\ Len(idx.returned) > 0
    /\ \E p \in IndexCandidates : ~Unmodified(p)

\* C13: an index search requested while no index exists, in memory or on
\* disk, ends with an answer and an index, not with an error.
C13_MissingIndexRebuilt ==
    (idx.outcome # "none" /\ idx.disk = <<>>)
    => (idx.outcome = "returned" /\ idx.index # <<>>)

\* A query is decided in this step: handleSearch got past its early returns.
QueryDecided == view'.queries # view.queries

\* The step answers the query from the cache and posts nothing.
AnsweredFromCache ==
    /\ view'.asked[1].how = "cache"
    /\ view'.toExt = view.toExt
    /\ view'.last # <<>> /\ view'.last[1].how = "refined"
    /\ view'.last[1].keywords = view'.asked[1].keywords

\* The step posts a 'search' message with the keywords and answers nothing.
FullSearchSent ==
    /\ view'.asked[1].how = "full"
    /\ view'.toExt = Append(view.toExt, view'.asked[1].keywords)
    /\ view'.last = view.last
    /\ view'.searchCache = view.searchCache

\* The cache holds a keyword set, its age is under the time to live and the
\* new keyword set is a strict superset of the cached keyword set.
CacheUsableAsStated(searchCache, kws, now) ==
    /\ searchCache.keywords # <<>>
    /\ now - searchCache.timestamp < CacheTTL
    /\ SeqToSet(searchCache.keywords) \subseteq SeqToSet(kws)
    /\ SeqToSet(searchCache.keywords) # SeqToSet(kws)

\* The cache holds a keyword list and a result list that are not empty, its
\* age is at most the time to live, and the new keyword list is longer than
\* the cached list and has every cached keyword.
CacheUsableAsCoded(searchCache, kws, now) ==
    /\ searchCache.keywords # <<>>
    /\ searchCache.results # <<>>
    /\ now - searchCache.timestamp <= CacheTTL
    /\ Len(searchCache.keywords) < Len(kws)
    /\ SeqToSet(searchCache.keywords) \subseteq SeqToSet(kws)

\* C14 as stated: a new query is answered from the cache if and only if the
\* cache holds a keyword set, its age is under 5 minutes and the new keyword
\* set is a strict superset of the cached one; in every other case a full
\* search request is sent.
C14_CacheIffStrictSuperset ==
    [][QueryDecided
       => IF CacheUsableAsStated(view.searchCache, view'.asked[1].keywords, view.now)
          THEN AnsweredFromCache ELSE FullSearchSent]_vars

\* C14 amended: a new query is answered from the cache if and only if the
\* cached keyword list and the cached result list are both non-empty, the
\* cache age is at most 5 minutes (300000 ms inclusive), and the new keyword
\* list is longer than the cached list and contains every cached keyword;
\* in every other case a 'search' message is posted.
C14_CacheIffCoded ==
    [][QueryDecided
       => IF CacheUsableAsCoded(view.searchCache, view'.asked[1].keywords, view.now)
          THEN AnsweredFromCache ELSE FullSearchSent]_vars

\* A query was answered from a cache whose age was exactly the time to live.
C14_Witness ==
    /\ view.asked # <<>>
    /\ view.asked[1].how = "cache"
    /\ view.asked[1].at - view.asked[1].cache.timestamp = CacheTTL

\* The step handles a searchCompleted message: a full search completes.
FullSearchCompleted ==
    /\ view.toView # <<>>
    /\ Head(view.toView).command = "searchCompleted"
    /\ view'.toView = Tail(view.toView)

\* The step answers a query by refining the cached results.
RefinementCompleted == QueryDecided /\ view'.asked[1].how = "cache"

\* C15: after every completed query, full or refined, the cache holds
\* exactly that query's keyword list and result list with the time of the
\* completion; the write replaces what the cache held before.
C15_CacheHoldsLastQuery ==
    [][/\ FullSearchCompleted
          => view'.searchCache = [keywords |-> Head(view.toView).keywords,
                                  results |-> Head(view.toView).results,
                                  timestamp |-> view.now]
       /\ RefinementCompleted
          => /\ view'.last # <<>>
             /\ view'.last[1].keywords = view'.asked[1].keywords
             /\ view'.searchCache = [keywords |-> view'.asked[1].keywords,
                                     results |-> view'.last[1].results,
                                     timestamp |-> view.now]]_vars

\* A query completed over a cache that held other keywords and other
\* results, written at an earlier time.
C15_Witness ==
    /\ view.last # <<>>
    /\ view.last[1].before.keywords # <<>>
    /\ view.last[1].before.keywords # view.last[1].keywords
    /\ view.last[1].before.results # <<>>
    /\ view.last[1].before.results # view.last[1].results
    /\ view.last[1].before.timestamp < view.last[1].at
    /\ view.searchCache.timestamp = view.last[1].at

\* C16: a refinement returns only results the cache held, in the order the
\* cache held them, so the cached result set never grows from one
\* refinement to the next.
C16_RefinementOnlyFilters ==
    [][RefinementCompleted
       => /\ SeqToSet(view'.last[1].results) \subseteq SeqToSet(view.searchCache.results)
          /\ Len(view'.last[1].results) <= Len(view.searchCache.results)
          /\ SeqToSet(view'.searchCache.results) \subseteq SeqToSet(view.searchCache.results)
          /\ Len(view'.searchCache.results) <= Len(view.searchCache.results)]_vars

\* The second refinement of a chain: a refinement of a cache that a
\* refinement wrote, after a refinement that dropped a cached result.
C16_Witness ==
    /\ view.last # <<>>
    /\ view.last[1].how = "refined"
    /\ Len(view.last[1].keywords) = 3
    /\ Len(view.last[1].before.keywords) = 2
    /\ view.last[1].before.results # <<>>
    /\ Len(view.last[1].before.results) < Cardinality(PathsOf(SearchAnswer(<<<<"a">>>>)))

\* Every line of the cached file that holds an occurrence of a keyword of
\* kws is a line of one of the preview snippets of the cached result.
OccurrencesInsidePreview(result, kws) ==
    LET lines == SplitLines(files[result.relativePath].content)
        holds(line, kw) ==
            IF config.caseSensitive THEN Includes(line, kw)
            ELSE Includes(ToLowerCase(line), ToLowerCase(kw))
    IN \A k \in 1..Len(kws) : \A n \in 1..Len(lines) :
         holds(lines[n], kws[k])
         => \E s \in 1..Len(result.preview.snippets) :
              /\ result.preview.snippets[s].startLine <= n
              /\ n <= result.preview.snippets[s].endLine

\* C17: when every occurrence of every keyword of the query in each cached
\* file lies inside the cached preview of the file, the files a refinement
\* returns are the files a full scan returns for the refined keyword list
\* (the cached keywords and the added ones).
C17_RefinementEqualsFullScan ==
    (/\ view.last # <<>>
     /\ view.last[1].how = "refined"
     /\ \A i \in 1..Len(view.last[1].before.results) :
          OccurrencesInsidePreview(view.last[1].before.results[i], view.last[1].keywords))
    => PathsOf(view.last[1].results) = PathsOf(SearchAnswer(view.last[1].keywords))

\* The columns of line at which an occurrence of kw counts: every occurrence
\* in substring mode; in whole-word mode the occurrences neither neighbour
\* of which is a word character.
RefColumns(line, kw, caseSensitive, wholeWord) ==
    {c \in 1..Len(line) :
        /\ RefOccursAt(line, kw, caseSensitive, c)
        /\ wholeWord =>
             /\ c = 1 \/ ~IsWordChar(line[c - 1])
             /\ c + Len(kw) > Len(line) \/ ~IsWordChar(line[c + Len(kw)])}

\* The positions of the occurrences of kw in the file at p that count.
RefPositions(p, kw) ==
    LET lines == SplitLines(files[p].content)
    IN UNION {{<<n, c>> : c \in RefColumns(lines[n], kw, config.caseSensitive,
                                           config.wholeWord)} : n \in 1..Len(lines)}

\* The file is read whole, without the streaming pre-check.
ReadWhole(p) == Searchable(p) /\ files[p].size <= LargeFileKB * 1024

\* A completed, uncancelled scan returns a file that is read whole if and
\* only if every keyword has an occurrence that counts, and reports for
\* each keyword the positions of the occurrences that count.
ScanMatchesByNeighbours ==
    \A p \in DOMAIN files :
        ReadWhole(p)
        => /\ p \in PathsOf(out.returned) <=> RefContainsAll(p)
           /\ \A i \in 1..Len(out.returned) :
                out.returned[i].relativePath = p
                => \A m \in 1..Len(out.returned[i].matches) :
                     LET match == out.returned[i].matches[m]
                     IN {<<match.positions[j].line, match.positions[j].column>> :
                           j \in 1..Len(match.positions)}
                        = RefPositions(p, match.keyword)

\* C18: in whole-word mode an occurrence of a keyword counts if and only if
\* neither the character before it nor the character after it is a word
\* character, for every keyword, the ones that begin or end with a
\* non-word character included; in substring mode every occurrence counts.
C18_WholeWordByNeighbours ==
    (QueryReturned /\ out.usedPath = "scan" /\ ~cancelled)
    => ScanMatchesByNeighbours

\* The same for queries whose keywords begin and end with a word character.
WordEdgedMatchByNeighbours ==
    (/\ QueryReturned /\ out.usedPath = "scan" /\ ~cancelled
     /\ \A k \in 1..Len(keywords) : WordEdged(keywords[k]))
    => ScanMatchesByNeighbours

\* searchKeywordsIntersection has been called with the keyword list.
ReachedSearch == pc # "idle" /\ out.outcome # "rejected"

\* C19: every keyword list that reaches searchKeywordsIntersection, from
\* the 'search' message of the panel or from the command, has at least one
\* keyword, and none of its keywords is empty or holds white space.
C19_KeywordsNonEmpty ==
    ReachedSearch
    => /\ Len(keywords) >= 1
       /\ \A k \in 1..Len(keywords) :
            /\ Len(keywords[k]) >= 1
            /\ \A i \in 1..Len(keywords[k]) : ~IsWhitespace(keywords[k][i])

\* A query reached searchKeywordsIntersection from a text typed with white
\* space before the first keyword and a run of white space between two.
C19_Witness ==
    /\ ReachedSearch
    /\ view.input # <<>>
    /\ IsWhitespace(view.input[1][1])
    /\ \E i \in 2..(Len(view.input[1]) - 1) :
         /\ ~IsWhitespace(view.input[1][i - 1])
         /\ IsWhitespace(view.input[1][i])
         /\ ~IsWhitespace(view.input[1][i + 1])
    /\ Len(keywords) = 2

\* The workers that hold a batch they have not settled yet.
BusyWorkers == {w \in DOMAIN scan.workers : scan.workers[w].state = "running"}

\* C20: during a scan no file is in two batches taken from the work queue,
\* no file is held by two workers at once, and no file taken is still in
\* the queue, whatever the order in which the workers settle.
C20_BatchesDisjoint ==
    /\ \A i, j \in 1..Len(scan.taken) :
         i # j => SeqToSet(scan.taken[i]) \cap SeqToSet(scan.taken[j]) = {}
    /\ \A i \in 1..Len(scan.taken) :
         Cardinality(SeqToSet(scan.taken[i])) = Len(scan.taken[i])
    /\ \A v, w \in BusyWorkers :
         v # w => SeqToSet(scan.workers[v].batch) \cap SeqToSet(scan.workers[w].batch) = {}
    /\ SeqToSet(TakenFiles) \cap SeqToSet(scan.workQueue) = {}

\* Three workers hold a batch each while batches taken earlier are settled
\* and files are left in the queue.
C20_Witness ==
    /\ pc = "scan"
    /\ Cardinality(BusyWorkers) >= 3
    /\ \A w \in BusyWorkers : scan.workers[w].batch # <<>>
    /\ Len(scan.taken) > Cardinality(BusyWorkers)
    /\ scan.workQueue # <<>>

\* The step ends the query on the scan path.
ScanReturns == pc # "done" /\ pc' = "done" /\ out'.usedPath = "scan"

\* C21: once cancellation is requested no worker takes another batch from
\* the work queue, and when the scan returns every batch taken has been
\* run to its end: its files are counted and its matching files are in the
\* result accumulator.
C21_CancelStopsNewBatches ==
    [][/\ cancelled => scan'.taken = scan.taken /\ scan'.workQueue = scan.workQueue
       /\ ScanReturns
          => /\ \A w \in DOMAIN scan'.workers : scan'.workers[w].state = "done"
             /\ scan'.processedFiles = Len(Flatten(scan'.taken))
             /\ \E taken \in {BatchResults(Flatten(scan'.taken), keywords, config)} :
                  /\ SeqToSet(scan'.results) = SeqToSet(taken)
                  /\ Len(scan'.results) = Len(taken)]_vars

\* A cancelled scan has ended: two batches or more were under way when the
\* signal was set, files were left in the queue, and the files of every
\* batch taken are counted.
C21_Witness ==
    /\ QueryDone
    /\ cancelled
    /\ out.usedPath = "scan"
    /\ Len(scan.workers) >= 2
    /\ Len(scan.taken) = Len(scan.workers)
    /\ scan.workQueue # <<>>
    /\ scan.processedFiles = Len(TakenFiles)
    /\ scan.results # <<>>

\* CPU counts and candidate counts around the turning points of the batch
\* size formula.
CpuCounts == 1..12
CandidateCounts == {1, 2, 9, 10, 11, 41, 49, 50, 51, 199, 200, 201, 1000}

\* The batch size is between 1 and 20 and the worker count between 1 and
\* 4, for this scan and for the counts above; every batch taken is not
\* empty and no file is taken twice.
ScanShape ==
    /\ \A c \in CpuCounts :
         /\ WorkerCount(c) \in 1..4
         /\ \A n \in CandidateCounts : BatchSize(c, n) \in 1..20
    /\ pc = "scan"
       => /\ scan.batchSize \in 1..20
          /\ Len(scan.workers) \in 1..4
          /\ Len(scan.workers) = WorkerCount(cpuCount)
    /\ \A b \in 1..Len(scan.taken) : Len(scan.taken[b]) \in 1..scan.batchSize
    /\ Cardinality(SeqToSet(TakenFiles)) = Len(TakenFiles)

\* The scan has returned with every candidate taken once, the queue empty
\* and every file counted.
ScanComplete ==
    /\ pc = "done"
    /\ out.outcome = "returned"
    /\ scan.workQueue = <<>>
    /\ SeqToSet(TakenFiles) = Candidates
    /\ Len(TakenFiles) = Cardinality(Candidates)
    /\ scan.processedFiles = scan.totalFiles
    /\ scan.totalFiles = Cardinality(Candidates)

\* C22: every worker iteration takes at least one file (batch size 1..20,
\* 1..4 workers, for a CPU count of 1 or more and a candidate list that is
\* not empty), no file is taken twice, and a scan that is never cancelled
\* ends with every candidate taken, the queue empty and the processed
\* count equal to the total.
C22_ScanTerminates ==
    /\ []ScanShape
    /\ ([]~cancelled) => ((pc = "scan") ~> ScanComplete)

\* An uncancelled scan of four workers has ended complete after more
\* batches than workers, the last batch shorter than the batch size.
C22_Witness ==
    /\ ScanComplete
    /\ ~cancelled
    /\ out.usedPath = "scan"
    /\ Len(scan.workers) = 4
    /\ Len(scan.taken) > Len(scan.workers)
    /\ Len(scan.taken[Len(scan.taken)]) < scan.batchSize


\* The children of the availability check spawned for one binary.
ProbesOf(binary) ==
    {i \in DOMAIN rg.probe.children : rg.probe.children[i].binary = binary}

\* C23: within one query each candidate utility, the bundled binary and
\* the system binary, is probed by at most one spawned process, whatever
\* the order of the error, exit and timeout callbacks.
C23_OneProbePerBinary ==
    \A binary \in {"bundled", "system"} : Cardinality(ProbesOf(binary)) <= 1

ProbeResolved == rg.probe.resolved # <<>>

\* C24: the availability check always settles: the promise of
\* checkRipgrepAvailable is resolved in the end, its value is that of the
\* first call of resolve and never changes, and available comes with a
\* path that is not null.
C24_ProbeSettlesOnce ==
    /\ <>ProbeResolved
    /\ [][/\ ProbeResolved => rg'.probe.resolved = rg.probe.resolved
          /\ rg.probe.resolves = 0 <=> ~ProbeResolved]_vars
    /\ [](ProbeResolved /\ rg.probe.resolved[1].available
            => rg.probe.resolved[1].path # <<>>)

\* The bundled child hung and was killed, the system child answered, and
\* resolve was called again afterwards.
C24_Witness ==
    /\ ProbeResolved
    /\ rg.probe.resolved[1].available
    /\ rg.probe.resolves >= 2
    /\ rg.probe.children[1].binary = "bundled"
    /\ rg.probe.children[1].killed
    /\ ~rg.probe.children[1].error

\* The candidate set the claim gives child c when its promise settles by
\* the event how: on status 0 the non-blank lines of all the child wrote.
OutcomeAsStated(child, how) ==
    IF how = "exit" /\ child.code = 0
    THEN [kind |-> "resolve", files |-> RgOutputFiles(child.output \o child.pending)]
    ELSE IF how = "exit"
    THEN [kind |-> "resolve", files |-> <<>>]
    ELSE [kind |-> "reject", files |-> <<>>]

\* C25: the outcome of the subprocess of each keyword is classified once:
\* exit status 0 gives the non-blank lines of the complete output, exit
\* status 1 the empty set as a success that empties the query result
\* without fallback, any other status, a spawn error or the timeout a
\* failure, and a later event never changes a settled outcome.
C25_OutcomeClassifiedOnce ==
    [][/\ \A c \in DOMAIN rg.children :
            /\ rg.children[c].settled # <<>>
               => rg'.children[c].settled = rg.children[c].settled
            /\ rg.children[c].settled = <<>> /\ rg'.children[c].settled # <<>>
               => /\ rg'.children[c].settled[1]
                        = OutcomeAsStated(rg.children[c], rg'.children[c].how)
                  /\ rg'.children[c].how = "exit"
                        <=> (rg'.children[c].exit /\ ~rg.children[c].exit
                               /\ ~rg.children[c].killed /\ rg.children[c].code \in {0, 1})
       /\ pc = "rg" /\ pc' # "rg"
            => LET last == rg.children[Len(rg.children)]
               IN /\ last.how # "exit" <=> pc' = "enumerate"
                  /\ (\E c \in DOMAIN rg.children :
                         rg.children[c].how = "exit" /\ rg.children[c].code = 1)
                       /\ last.how = "exit"
                     => pc' = "done" /\ out'.usedPath = "fast" /\ out'.returned = <<>>]_vars

\* The text the pre-check compares: lowercased unless case matters.
Normalised(text) == IF config.caseSensitive THEN text ELSE ToLowerCase(text)

\* Every keyword occurs in the whole content of the file.
AllKeywordsOccur ==
    \A k \in 1..Len(keywords) :
        Includes(Normalised(files[PathOf(1)].content), Normalised(keywords[k]))

PreChecked == pc = "done" /\ out.usedPath = "stream"

\* The keywords are distinct as the search compares them: lowercased
\* unless case matters.
DistinctKeywords ==
    \A j, k \in 1..Len(keywords) :
        j # k => Normalised(keywords[j]) # Normalised(keywords[k])

FileMatched == pc = "done" /\ out.usedPath = "file"

\* C27: containsAllKeywords gives the same result for a file above the
\* 100KB threshold as for the same content below it, for every keyword
\* list, repeated keywords included.
C27_SameAboveAndBelow ==
    FileMatched
        => \E small \in {[files[PathOf(1)] EXCEPT !.size = SmallSize]} :
             \E below \in {containsAllKeywords(PathOf(1), small, keywords,
                                                config.caseSensitive, config.wholeWord,
                                                config.maxFileSize)} :
                /\ (out.returned = <<>>) <=> (below = <<>>)
                /\ out.returned # <<>>
                   => /\ out.returned[1].matches = below[1].matches
                      /\ out.returned[1].preview = below[1].preview

\* C28: after buildSearchIndex has run to completion, isIndexOutdated
\* returns false on every call made before a candidate file is added,
\* removed or written, whatever the sizes and the readability of the
\* candidate files.
C28_FreshIndexNotOutdated ==
    idx.stale # <<>> /\ idx.builtWith # 0 /\ idx.changes = 0 => idx.stale = <<FALSE>>

\* The document with every array in the opposite order: what saveIndex
\* writes when the Sets iterate the other way round.
ReversedDocument(doc) ==
    [doc EXCEPT
        !.files = [p \in DOMAIN doc.files |->
                     [doc.files[p] EXCEPT !.words = Reverse(doc.files[p].words)]],
        !.wordToFiles = [w \in DOMAIN doc.wordToFiles |-> Reverse(doc.wordToFiles[w])]]

C29_DocumentIsComplete ==
    idx.disk # <<>>
    => \E doc \in {idx.disk[1]} :
         /\ \A p \in DOMAIN files : Searchable(p) => p \in DOMAIN doc.files
         /\ \A p \in DOMAIN doc.files :
               \A w \in DOMAIN doc.wordToFiles \cup SeqToSet(doc.files[p].words) :
                  /\ w \in DOMAIN doc.wordToFiles
                  /\ p \in SeqToSet(doc.wordToFiles[w]) <=> w \in SeqToSet(doc.files[p].words)
         /\ \A w \in DOMAIN doc.wordToFiles : SeqToSet(doc.wordToFiles[w]) \subseteq DOMAIN doc.files
         /\ doc.totalFiles = Cardinality(DOMAIN doc.files)
         /\ doc.totalWords = Cardinality(DOMAIN doc.wordToFiles)

\* A build whose token is never set writes a complete document.
DocumentCompleteUnlessCancelled == ~cancelled => C29_DocumentIsComplete

\* C31: after clearIndex returns without throwing, whether the document
\* was on disk or not, the index in memory is null, hasIndex is false and
\* a following searchWithIndex does not answer from the old index.
C31_ClearedIndexIsGone ==
    idx.cleared = "returned"
    => /\ idx.index = <<>>
       /\ ~hasIndex(workspaceOpen, idx.disk)
       /\ idx.outcome # "returned"

\* The cached results that pass the test of handleIncrementalSearch for
\* the keywords added since the cached query only.
FilteredByNewKeywords(decision) ==
    LET added == FilterIn(decision.keywords,
                          SeqToSet(decision.keywords) \ SeqToSet(decision.cache.keywords))
    IN FilterResults(decision.cache.results, added,
                     decision.flags.caseSensitive, decision.flags.wholeWord)

\* C32: a query answered from the cache filters the cached results against
\* the keywords added since the cached query only; cached keywords are not
\* tested again, so a cached file is dropped only if an added keyword is
\* absent from its path and cached preview text.
C32_OnlyNewKeywordsTested ==
    (/\ view.asked # <<>>
     /\ view.last # <<>>
     /\ view.asked[1].how = "cache"
     /\ view.last[1].how = "refined")
    => view.last[1].results = FilteredByNewKeywords(view.asked[1])

\* C33: a change of the case-sensitive or whole-word check box, and the
\* configuration update it requests, leave the result cache (keywords,
\* results, timestamp) as it is; a query the cache can answer that is issued
\* afterwards is refined from the cached results, captured under the
\* earlier flags, and no scan is requested.
C33_ToggleKeepsCache ==
    [][/\ view'.toConfig # view.toConfig => view'.searchCache = view.searchCache
       /\ (/\ QueryDecided
           /\ view.toggles > 0
           /\ CacheUsableAsCoded(view.searchCache, view'.asked[1].keywords, view.now))
          => /\ view'.asked[1].how = "cache"
             /\ view'.asked[1].cache = view.searchCache
             /\ view'.toExt = view.toExt
             /\ SeqToSet(view'.last[1].results) \subseteq SeqToSet(view.searchCache.results)]_vars

\* A query was refined under the case-sensitive flag from results that only
\* a case-insensitive scan finds.
C33_Witness ==
    /\ view.asked # <<>>
    /\ view.asked[1].how = "cache"
    /\ view.toggles > 0
    /\ view.asked[1].flags.caseSensitive
    /\ view.asked[1].cache.results # <<>>
    /\ view.asked[1].cache.results = SearchAnswer(<<<<"a">>>>)
    /\ ~config.caseSensitive

\* C34: at most one search is in flight per panel: from the 'search'
\* message handleSearch posts to the arrival of its searchCompleted or
\* searchError no second 'search' message is posted and no second
\* searchKeywordsIntersection call is started, whenever the user's input
\* comes relative to searchStarted.
C34_OneSearchInFlight ==
    /\ InFlight(view) <= 1
    /\ Len(view.running) <= 1

\* The messages of a command among those a step has posted to the script.
PostedBy(before, after, commands) ==
    {i \in (Len(before) + 1)..Len(after) : after[i].command \in commands}

\* A step of the extension posts a searchStarted for every call it leaves
\* under way or has answered at once, and a searchCompleted or searchError
\* for every call that ends; a searchCompleted carries the keywords of a
\* call that was under way.
StartsAndAnswersPair ==
    Len(view'.toView) > Len(view.toView)
    => /\ SubSeq(view'.toView, 1, Len(view.toView)) = view.toView
       /\ Len(view'.running) + Cardinality(PostedBy(view.toView, view'.toView,
                                                    {"searchCompleted", "searchError"}))
          = Len(view.running) + Cardinality(PostedBy(view.toView, view'.toView,
                                                    {"searchStarted"}))
       /\ \A i \in PostedBy(view.toView, view'.toView, {"searchCompleted"}) :
             view'.toView[i].keywords \in SeqToSet(view.running)

\* A message of one of the commands for the keyword list waits in the
\* queue of the script.
Waiting(commands, kws) ==
    \E i \in 1..Len(view.toView) :
        /\ view.toView[i].command \in commands
        /\ view.toView[i].keywords = kws

\* C35: every searchStarted message sent to the script is followed by
\* exactly one searchCompleted or searchError message for the same query,
\* so isSearching always returns to false.
C35_StartedIsAnswered ==
    /\ [][StartsAndAnswersPair]_vars
    /\ \A kws \in TypedKeywordLists :
          Waiting({"searchStarted"}, kws) ~> Waiting({"searchCompleted", "searchError"}, kws)
    /\ view.isSearching ~> (~view.isSearching /\ view.running = <<>>)

\* Two queries were put and the last full search was answered: nothing is
\* posted or under way any more and the script is idle.
C35_Witness ==
    /\ view.queries = 2
    /\ view.asked[1].how = "full"
    /\ view.last # <<>>
    /\ view.last[1].how = "full"
    /\ ~view.isSearching
    /\ view.toExt = <<>>
    /\ view.running = <<>>
    /\ view.toView = <<>>
    /\ view.searchCache.timestamp = view.now

\* The results the scan of the file and the search of the index have
\* emitted.
Emitted ==
    (IF out.usedPath = "file" THEN SeqToSet(out.returned) ELSE {})
    \cup (IF idx.outcome = "returned" THEN SeqToSet(idx.returned) ELSE {})

\* The keyword stands in the line at the column (counted from 1), letter
\* for letter or, when case is ignored, up to the case of the letters.
OccursAt(line, keyword, column, caseSensitive) ==
    /\ column + Len(keyword) - 1 <= Len(line)
    /\ LET there == SubSeq(line, column, column + Len(keyword) - 1)
       IN IF caseSensitive THEN there = keyword
          ELSE ToLowerCase(there) = ToLowerCase(keyword)

\* The lines of a text: one more than it has line feeds, each the text
\* between two of them.
LinesOfText(content) ==
    LET feeds == {i \in 1..Len(content) : content[i] = "\n"}
        cut(n) == IF n = 0 THEN 0
                  ELSE IF n > Cardinality(feeds) THEN Len(content) + 1
                  ELSE CHOOSE i \in feeds : Cardinality({j \in feeds : j < i}) = n - 1
    IN [n \in 1..(Cardinality(feeds) + 1) |-> SubSeq(content, cut(n - 1) + 1, cut(n) - 1)]

\* C36: every SearchResult the scan path or the index path emits has one
\* KeywordMatch per query keyword, in query order, each with at least one
\* position; every position has 1 <= line <= number of lines and
\* column >= 1, and the keyword stands in that line at that column under
\* the case flag.  No result is emitted for a file in which a keyword has
\* no position.
C36_MatchesWellFormed ==
    \A lines \in {LinesOfText(files[PathOf(1)].content)} :
       /\ \A r \in Emitted :
             /\ Len(r.matches) = Len(keywords)
             /\ \A k \in 1..Len(r.matches) :
                   /\ r.matches[k].keyword = keywords[k]
                   /\ Len(r.matches[k].positions) >= 1
                   /\ \A i \in 1..Len(r.matches[k].positions) :
                         \E at \in {r.matches[k].positions[i]} :
                            /\ 1 <= at.line
                            /\ at.line <= Len(lines)
                            /\ at.column >= 1
                            /\ OccursAt(lines[at.line], keywords[k], at.column,
                                        config.caseSensitive)
       /\ (\E k \in 1..Len(keywords) : \A n \in 1..Len(lines) :
              \A column \in 1..Len(lines[n]) :
                 ~OccursAt(lines[n], keywords[k], column, config.caseSensitive))
          => Emitted = {}

\* Both paths have emitted a result for two keywords, the second of which
\* has its position beyond the first line.
C36_Witness ==
    /\ out.usedPath = "file"
    /\ out.returned # <<>>
    /\ idx.outcome = "returned"
    /\ idx.returned # <<>>
    /\ Len(keywords) = 2
    /\ \E i \in 1..Len(idx.returned[1].matches[2].positions) :
          idx.returned[1].matches[2].positions[i].line > 1

\* The previews containsAllKeywords has produced, each with the matches of
\* its result.
Previewed ==
    IF out.usedPath = "file" THEN SeqToSet(out.returned) ELSE {}

\* The lines (counted from 1) on which a keyword of the matches has a
\* position.
LinesMatched(matches) ==
    UNION {{matches[k].positions[i].line : i \in 1..Len(matches[k].positions)} :
             k \in 1..Len(matches)}

\* C37: a preview has at most 5 snippets, in ascending line order; every
\* snippet contains a matched line, and no two snippets overlap or touch:
\* the startLine of each is greater than the endLine of the one before
\* plus 1.
C37_PreviewShape ==
    \A r \in Previewed : \E S \in {r.preview.snippets} :
       /\ Len(S) <= 5
       /\ \A g \in 1..Len(S) :
             /\ S[g].startLine <= S[g].endLine
             /\ \E n \in LinesMatched(r.matches) : S[g].startLine <= n /\ n <= S[g].endLine
             /\ g > 1 => S[g].startLine > S[g - 1].endLine + 1

\* A preview of 5 snippets that leaves a matched line out.
C37_Witness ==
    \E r \in Previewed :
       /\ Len(r.preview.snippets) = 5
       /\ \E n \in LinesMatched(r.matches) :
             \A g \in 1..5 : n > r.preview.snippets[g].endLine
       /\ \E g \in 1..5 :
             Cardinality({n \in LinesMatched(r.matches) :
                            /\ r.preview.snippets[g].startLine <= n
                            /\ n <= r.preview.snippets[g].endLine}) > 1

\* C38: matchedKeywords of every snippet is the set of the query keywords
\* with a match position on a line of the range the snippet reports, from
\* startLine to endLine (counted from 1, both included).
C38_MatchedKeywordsOfRange ==
    \A r \in Previewed : \A g \in 1..Len(r.preview.snippets) :
       SeqToSet(r.preview.snippets[g].matchedKeywords)
       = {r.matches[k].keyword : k \in
            {k \in 1..Len(r.matches) :
               \E i \in 1..Len(r.matches[k].positions) :
                  /\ r.matches[k].positions[i].line >= r.preview.snippets[g].startLine
                  /\ r.matches[k].positions[i].line <= r.preview.snippets[g].endLine}}

\* C39: a snippet that covers the matched line L of a file of n lines
\* covers at least the lines max(1, L - 2) to min(n, L + 2).
C39_ContextWindow ==
    \A r \in Previewed : \A g \in 1..Len(r.preview.snippets) :
       \A L \in LinesMatched(r.matches) :
          (r.preview.snippets[g].startLine <= L /\ L <= r.preview.snippets[g].endLine)
          => /\ r.preview.snippets[g].startLine <= (IF L - 2 > 1 THEN L - 2 ELSE 1)
             /\ r.preview.snippets[g].endLine
                >= (IF L + 2 < r.preview.totalLines THEN L + 2 ELSE r.preview.totalLines)

\* An increment a is at most an increment b; both are fractions <<num, den>>.
AtMost(a, b) == a[1] * b[2] <= b[1] * a[2]

\* The increments reported so far never go down.
ReportsNonDecreasing ==
    \A i \in 1..(Len(reports) - 1) : AtMost(reports[i], reports[i + 1])

\* The increments reported so far lie between 0 and 100.
ReportsWithinPercent ==
    \A i \in 1..Len(reports) :
       AtMost(<<0, 1>>, reports[i]) /\ AtMost(reports[i], <<100, 1>>)

\* A step of a scan worker reports a value between 10 and 90: the worker's
\* report is the first one its step adds.
WorkerReportsInBand ==
    (pc = "scan" /\ Len(reports') > Len(reports))
    => /\ AtMost(<<10, 1>>, reports'[Len(reports) + 1])
       /\ AtMost(reports'[Len(reports) + 1], <<90, 1>>)

\* C40: over one query, on the fast path and on the scan path, the
\* increments passed to progress.report form a non-decreasing sequence of
\* values between 0 and 100, and every value a scan worker reports lies
\* between 10 and 90, whichever order the workers' batches settle in.
C40_ProgressCumulative ==
    /\ [](ReportsNonDecreasing /\ ReportsWithinPercent)
    /\ [][WorkerReportsInBand]_vars

\* The part of C40 about the scan: the worker values are within the band,
\* and while no run of the utility has settled and every increment is a
\* whole number the increments never go down.
ScanProgressCumulative ==
    /\ [](Len(rg.settled) = 0 /\ (\A i \in 1..Len(reports) : reports[i][2] = 1)
          => ReportsNonDecreasing /\ ReportsWithinPercent)
    /\ [][WorkerReportsInBand]_vars

=========================================================================
